---- MODULE Spec2Model ----
(***************************************************************************)
(* Model of devlaunch's worktree backend: the Metadata Store               *)
(* (storage.py), the Repository Manager (repo_manager.py), the Worktree    *)
(* Manager (worktree_manager.py) and the Workspace Manager                 *)
(* (workspace_manager.py), over a small file system and a model of the git *)
(* and devpod subprocesses they drive.                                     *)
(*                                                                         *)
(* Strings the code only concatenates or compares (owner, repo, path       *)
(* segments, keys, ids) are TLA+ strings; branch names, which the code     *)
(* rewrites character by character, are sequences of one-character         *)
(* strings.  Paths are sequences of segments.  Optional values are <<>>    *)
(* (None) or <<v>>.                                                        *)
(***************************************************************************)
EXTENDS Integers, Sequences, FiniteSets, TLC

VARIABLES
    mem,      \* mem[i]: the in-memory maps of MetadataStorage instance i
    disk,     \* the metadata file: [exists, repositories, worktrees]
    fs,       \* the file system: path -> [kind, content]
    locks,    \* lock file name -> set of processes holding its flock
    pc,       \* pc[p]: where process p stands in create_workspace
    call,     \* call[p]: the arguments of p's create_workspace call
    ret,      \* ret[p]: what p's call returned or raised
    shared,   \* TRUE: all processes use one MetadataStorage object
    now,      \* the clock datetime.now() reads
    log,      \* subprocess invocations so far, oldest first
    last,     \* the latest sequential operation: its name, arguments, result
    nops      \* number of sequential operations so far

vars == <<mem, disk, fs, locks, pc, call, ret, shared, now, log, last, nops>>

----------------------------------------------------------------------------
(* Bounds of the model                                                     *)

NumProcs == 2
MaxOps == 3
MaxStoreOps == 5
MaxTime == 2
MaxBranchLen == 3

----------------------------------------------------------------------------
(* Values                                                                  *)

None == <<>>
Some(v) == <<v>>

Procs == 1..NumProcs

\* (owner, repo) pairs; the first two differ only in where the '-' falls.
RepoPairs == { <<"a", "b-c">>, <<"a-b", "c">> }
OtherPair == <<"x", "y">>
AllPairs == RepoPairs \cup { OtherPair }

\* Branch names, as character sequences.
BrMain == <<"m">>
BrFeatSlash == <<"f", "/", "x">>
BrFeatDash == <<"f", "-", "x">>
\* A branch name whose sanitized form is the empty string.
BrDots == <<".", ".", ".">>

RemoteUrl(owner, repo) == "git@" \o owner \o "/" \o repo

RECURSIVE Str(_)
Str(cs) == IF cs = <<>> THEN "" ELSE Head(cs) \o Str(Tail(cs))

Put(f, k, v) == [x \in DOMAIN f \cup {k} |-> IF x = k THEN v ELSE f[x]]
Del(f, k) == [x \in DOMAIN f \ {k} |-> f[x]]
EmptyMap == [x \in {} |-> x]

Range(s) == { s[i] : i \in DOMAIN s }
NoDup(s) == \A i, j \in DOMAIN s : i # j => s[i] # s[j]

\* list.remove(v): drops the first occurrence of v.
RECURSIVE ListRemove(_, _)
ListRemove(s, v) ==
    IF s = <<>> THEN <<>>
    ELSE IF Head(s) = v THEN Tail(s)
    ELSE <<Head(s)>> \o ListRemove(Tail(s), v)

----------------------------------------------------------------------------
(* sanitize_branch_name                                                    *)

Alnum ==
    { "a","b","c","d","e","f","g","h","i","j","k","l","m","n","o","p","q",
      "r","s","t","u","v","w","x","y","z",
      "A","B","C","D","E","F","G","H","I","J","K","L","M","N","O","P","Q",
      "R","S","T","U","V","W","X","Y","Z",
      "0","1","2","3","4","5","6","7","8","9" }

SafeChars == Alnum \cup { "-", "_", "." }
StripCharsDotsOnly == { "." }
StripChars == { ".", "-" }

RECURSIVE LStrip(_)
LStrip(cs) ==
    IF cs # <<>> /\ Head(cs) \in StripChars THEN LStrip(Tail(cs)) ELSE cs

RECURSIVE RStrip(_)
RStrip(cs) ==
    IF cs # <<>> /\ cs[Len(cs)] \in StripChars
    THEN RStrip(SubSeq(cs, 1, Len(cs) - 1)) ELSE cs

sanitize_chars(branch) ==
    LET slashed == [i \in DOMAIN branch |->
                       IF branch[i] = "/" THEN "-" ELSE branch[i]]
        subbed == [i \in DOMAIN slashed |->
                       IF slashed[i] \in SafeChars THEN slashed[i] ELSE "_"]
    IN  RStrip(LStrip(subbed))

sanitize_branch_name(branch) == Str(sanitize_chars(branch))

----------------------------------------------------------------------------
(* Paths and the file system                                               *)

repos_dir == <<"repos">>

\* pathlib's "/": an empty segment leaves the path as it is.
PathJoin(p, seg) == IF seg = "" THEN p ELSE Append(p, seg)

Parent(p) == IF p = <<>> THEN p ELSE SubSeq(p, 1, Len(p) - 1)
Name(p) == IF p = <<>> THEN "" ELSE p[Len(p)]

IsPrefix(p, q) == Len(p) <= Len(q) /\ SubSeq(q, 1, Len(p)) = p

Exists(F, p) == p \in DOMAIN F
IsDir(F, p) == Exists(F, p) /\ F[p].kind = "dir"
IsFile(F, p) == Exists(F, p) /\ F[p].kind = "file"
Children(F, p) == { q \in DOMAIN F : Len(q) = Len(p) + 1 /\ IsPrefix(p, q) }

DirNode == [kind |-> "dir", content |-> <<>>]
FileNode(c) == [kind |-> "file", content |-> c]

RECURSIVE Ancestors(_)
Ancestors(p) == IF Len(p) <= 1 THEN {} ELSE {Parent(p)} \cup Ancestors(Parent(p))

\* mkdir(parents=True, exist_ok=True)
MkdirP(F, p) ==
    LET need == ({p} \cup Ancestors(p)) \ DOMAIN F
    IN  [q \in DOMAIN F \cup need |-> IF q \in need THEN DirNode ELSE F[q]]

WriteFile(F, p, c) == Put(MkdirP(F, Parent(p)), p, FileNode(c))

\* shutil.rmtree
RmTree(F, p) == [q \in { r \in DOMAIN F : ~IsPrefix(p, r) } |-> F[q]]

\* Path.resolve() of base / rel: ".." steps to the parent.
RECURSIVE Resolve(_, _)
Resolve(base, rel) ==
    IF rel = <<>> THEN base
    ELSE IF Head(rel) = ".." THEN Resolve(Parent(base), Tail(rel))
    ELSE Resolve(Append(base, Head(rel)), Tail(rel))

----------------------------------------------------------------------------
(* Paths of repositories and worktrees; models.py: BaseRepository and       *)
(* WorktreeInfo with their dictionary forms                                *)

RepositoryManager_get_repo_path(owner, repo) == repos_dir \o <<owner, repo>>

WorktreeManager_get_worktree_path(owner, repo, branch) ==
    PathJoin(Append(RepositoryManager_get_repo_path(owner, repo), ".worktrees"),
             sanitize_branch_name(branch))

BaseRepository(owner, repo, url, path, default_branch, last_fetched, worktrees) ==
    [owner |-> owner, repo |-> repo, remote_url |-> url, local_path |-> path,
     default_branch |-> default_branch, last_fetched |-> last_fetched,
     worktrees |-> worktrees]

WorktreeInfo(owner, repo, branch, path, workspace_id, created_at, last_used, devpod) ==
    [owner |-> owner, repo |-> repo, branch |-> branch, local_path |-> path,
     workspace_id |-> workspace_id, created_at |-> created_at,
     last_used |-> last_used, devpod_workspace_id |-> devpod]

RepoKey(owner, repo) == owner \o "/" \o repo
WorktreeKey(owner, repo, branch) == owner \o "/" \o repo \o "/" \o Str(branch)

\* All branch names the model's inputs are drawn from.
AllBranches == { BrMain, BrFeatSlash, BrFeatDash }

\* str(path) and Path(str): the string is parsed back among the paths the
\* program forms.
RECURSIVE PathStr(_)
PathStr(p) == IF p = <<>> THEN "" ELSE "/" \o Head(p) \o PathStr(Tail(p))

KnownPaths ==
    UNION { { RepositoryManager_get_repo_path(rp[1], rp[2]) } \cup
            { WorktreeManager_get_worktree_path(rp[1], rp[2], b) : b \in AllBranches }
            : rp \in AllPairs }

PathOf(s) == CHOOSE p \in KnownPaths : PathStr(p) = s

\* datetime.isoformat() and datetime.fromisoformat()
IsoFormat(t) == [iso |-> t]
FromIsoFormatDateOnly(x) == 0
FromIsoFormat(x) == x.iso

BaseRepository_to_dict(r) ==
    [r EXCEPT !.local_path = PathStr(@),
              !.last_fetched = IF @ # None THEN Some(IsoFormat(@[1])) ELSE None]

BaseRepository_from_dict(d) ==
    [d EXCEPT !.local_path = PathOf(@),
              !.last_fetched = IF @ # None THEN Some(FromIsoFormat(@[1])) ELSE @]

WorktreeInfo_to_dict(w) ==
    [w EXCEPT !.local_path = PathStr(@),
              !.created_at = IsoFormat(@),
              !.last_used = IsoFormat(@)]

WorktreeInfo_from_dict(d) ==
    [d EXCEPT !.local_path = PathOf(@),
              !.created_at = FromIsoFormat(@),
              !.last_used = FromIsoFormat(@)]

----------------------------------------------------------------------------
(* storage.py: MetadataStorage.  A world W carries the instance's maps      *)
(* (W.mem), the metadata file (W.disk), the file system (W.fs), the clock   *)
(* (W.now), the subprocess log (W.log) and the result of the latest call    *)
(* (W.res).                                                                 *)

EmptyStore == [repositories |-> EmptyMap, worktrees |-> EmptyMap]
MissingFile == [exists |-> FALSE, repositories |-> EmptyMap, worktrees |-> EmptyMap]

MetadataStorage_load(d) ==
    IF d.exists
    THEN [repositories |-> [k \in DOMAIN d.repositories |->
                               BaseRepository_from_dict(d.repositories[k])],
          worktrees |-> [k \in DOMAIN d.worktrees |->
                               WorktreeInfo_from_dict(d.worktrees[k])]]
    ELSE EmptyStore

ToDocument(m) ==
    [exists |-> TRUE,
     repositories |-> [k \in DOMAIN m.repositories |->
                          BaseRepository_to_dict(m.repositories[k])],
     worktrees |-> [k \in DOMAIN m.worktrees |->
                          WorktreeInfo_to_dict(m.worktrees[k])]]

MetadataStorage_save(W) == [W EXCEPT !.disk = ToDocument(W.mem)]

MetadataStorage_add_repository(W, repo) ==
    MetadataStorage_save(
        [W EXCEPT !.mem.repositories = Put(@, RepoKey(repo.owner, repo.repo), repo)])

MetadataStorage_get_repository(W, owner, repo) ==
    IF RepoKey(owner, repo) \in DOMAIN W.mem.repositories
    THEN Some(W.mem.repositories[RepoKey(owner, repo)]) ELSE None

MetadataStorage_remove_repository(W, owner, repo) ==
    IF RepoKey(owner, repo) \in DOMAIN W.mem.repositories
    THEN MetadataStorage_save(
             [W EXCEPT !.mem.repositories = Del(@, RepoKey(owner, repo))])
    ELSE W

\* repo.worktrees.append(branch)
AppendBranch(wts, branch) == Append(wts, branch)

MetadataStorage_add_worktree(W, wt) ==
    LET W1 == [W EXCEPT !.mem.worktrees =
                   Put(@, WorktreeKey(wt.owner, wt.repo, wt.branch), wt)]
        r == MetadataStorage_get_repository(W1, wt.owner, wt.repo)
        W2 == IF r # None /\ wt.branch \notin Range(r[1].worktrees)
              THEN MetadataStorage_add_repository(
                       W1, [r[1] EXCEPT !.worktrees = AppendBranch(@, wt.branch)])
              ELSE W1
    IN  MetadataStorage_save(W2)

MetadataStorage_get_worktree(W, owner, repo, branch) ==
    IF WorktreeKey(owner, repo, branch) \in DOMAIN W.mem.worktrees
    THEN Some(W.mem.worktrees[WorktreeKey(owner, repo, branch)]) ELSE None

\* list_worktrees(owner, repo), as a set
MetadataStorage_list_worktrees(W, owner, repo) ==
    { w \in Range(W.mem.worktrees) : w.owner = owner /\ w.repo = repo }

MetadataStorage_list_all_worktrees(W) == Range(W.mem.worktrees)

\* repo_obj.worktrees.remove(branch)
RemoveBranchNever(wts, branch) == wts
RemoveBranch(wts, branch) == ListRemove(wts, branch)

MetadataStorage_remove_worktree(W, owner, repo, branch) ==
    IF WorktreeKey(owner, repo, branch) \in DOMAIN W.mem.worktrees
    THEN LET W1 == [W EXCEPT !.mem.worktrees =
                        Del(@, WorktreeKey(owner, repo, branch))]
             r == MetadataStorage_get_repository(W1, owner, repo)
             W2 == IF r # None /\ branch \in Range(r[1].worktrees)
                   THEN MetadataStorage_add_repository(
                            W1, [r[1] EXCEPT !.worktrees = RemoveBranch(@, branch)])
                   ELSE W1
         IN  MetadataStorage_save(W2)
    ELSE W

----------------------------------------------------------------------------
(* The git subprocess, as the managers use it.  A fault names the one       *)
(* subprocess of the current operation that is made to fail for a reason    *)
(* outside the model (network, disk, a kill); "none" lets every subprocess  *)
(* succeed whenever the state of the repository allows it.                  *)

Faults == { "none", "clone", "clone_partial", "fetch", "add", "add_partial",
            "remove" }

\* The branches the remote advertises when it is cloned.
RemoteBranches == { BrMain }

\* The pointer files: "gitdir: <path>" in a worktree, and the reverse
\* <metadata dir>/gitdir.  A pointer is absolute or relative.
Pointer(abs, path) == [abs |-> abs, path |-> path]

GitCommonDir(F, base) ==
    IF Exists(F, Append(base, ".git")) THEN Some(Append(base, ".git"))
    ELSE IF IsFile(F, Append(base, "HEAD")) THEN Some(base)
    ELSE None

RefPath(cd, branch) == cd \o <<"refs", "heads", Str(branch)>>

GitBranchExists(F, base, branch) ==
    LET cd == GitCommonDir(F, base)
    IN  cd # None /\ Exists(F, RefPath(cd[1], branch))

\* git check-ref-format, for the characters of the model
BadRefChars == { " ", "~", "^", ":", "?", "*", "[", "\\" }
GitValidBranchName(branch) ==
    /\ branch # <<>>
    /\ Head(branch) \notin { "-", ".", "/" }
    /\ branch[Len(branch)] \notin { "/", "." }
    /\ \A i \in 1..(Len(branch) - 1) :
          /\ ~(branch[i] = "/" /\ branch[i + 1] \in { "/", "." })
          /\ ~(branch[i] = "." /\ branch[i + 1] = ".")
    /\ \A i \in DOMAIN branch : branch[i] \notin BadRefChars

\* The registered worktrees: the directories of <common dir>/worktrees.
GitRegistrations(F, cd) ==
    { d \in Children(F, Append(cd, "worktrees")) : IsDir(F, d) }

\* The worktree directory a registration points back to.
GitRegisteredPath(F, d) ==
    IF ~IsFile(F, Append(d, "gitdir")) THEN None
    ELSE LET ptr == F[Append(d, "gitdir")].content
             target == IF ptr.abs THEN ptr.path ELSE Resolve(d, ptr.path)
         IN  Some(IF Name(target) = ".git" THEN Parent(target) ELSE target)

\* The branches checked out: by the registered worktrees and, in a
\* non-bare repository, by the main working tree.
GitCheckedOut(F, base, cd) ==
    { F[Append(d, "HEAD")].content :
        d \in { e \in GitRegistrations(F, cd) : IsFile(F, Append(e, "HEAD")) } }
    \cup (IF cd # base /\ IsFile(F, Append(cd, "HEAD"))
          THEN { F[Append(cd, "HEAD")].content } ELSE {})

\* git has a registration for a worktree at path.
GitRegistered(F, base, path) ==
    LET cd == GitCommonDir(F, base)
    IN  /\ cd # None
        /\ \E d \in GitRegistrations(F, cd[1]) : GitRegisteredPath(F, d) = Some(path)

\* git clone --bare <url> <path>
GitCloneBare(F, path, fault) ==
    IF Exists(F, path) /\ (IsFile(F, path) \/ Children(F, path) # {})
    THEN [ok |-> FALSE, fs |-> F]
    ELSE IF fault = "clone" THEN [ok |-> FALSE, fs |-> F]
    ELSE IF fault = "clone_partial"
    THEN [ok |-> FALSE, fs |-> WriteFile(F, Append(path, "HEAD"), BrMain)]
    ELSE LET F1 == WriteFile(MkdirP(F, path), Append(path, "HEAD"), BrMain)
             refs == { RefPath(path, b) : b \in RemoteBranches }
             F2 == MkdirP(F1, path \o <<"refs", "heads">>)
         IN  [ok |-> TRUE,
              fs |-> [q \in DOMAIN F2 \cup refs |->
                         IF q \in refs THEN FileNode(<<>>) ELSE F2[q]]]

\* git fetch --all --tags --prune
GitFetchAll(F, base, fault) == GitCommonDir(F, base) # None /\ fault # "fetch"

\* git fetch origin <branch>:<branch>
GitFetchRef(F, base, branch, remoteHas) ==
    LET cd == GitCommonDir(F, base)
    IN  IF cd # None /\ remoteHas
        THEN WriteFile(F, RefPath(cd[1], branch), <<>>)
        ELSE F

\* git worktree add [-b <branch>] <path> [<branch>]
GitWorktreeAdd(F, base, path, branch, newBranch, fault) ==
    LET cd == GitCommonDir(F, base)
        refused ==
            \/ cd = None
            \/ Exists(F, path) /\ (IsFile(F, path) \/ Children(F, path) # {})
            \/ \E d \in GitRegistrations(F, cd[1]) :
                   GitRegisteredPath(F, d) = Some(path)
            \/ newBranch /\ ( ~GitValidBranchName(branch)
                              \/ GitBranchExists(F, base, branch) )
            \/ ~newBranch /\ ~GitBranchExists(F, base, branch)
            \/ branch \in GitCheckedOut(F, base, cd[1])
        meta == cd[1] \o <<"worktrees", Name(path)>>
    IN  IF cd = None \/ refused \/ fault = "add" THEN [ok |-> FALSE, fs |-> F]
        ELSE IF fault = "add_partial"
        THEN [ok |-> FALSE,
              fs |-> WriteFile(F, Append(path, ".git"), Pointer(TRUE, meta))]
        ELSE LET F1 == WriteFile(F, Append(path, ".git"), Pointer(TRUE, meta))
                 F2 == WriteFile(F1, Append(meta, "HEAD"), branch)
                 F3 == WriteFile(F2, Append(meta, "gitdir"),
                                 Pointer(TRUE, Append(path, ".git")))
                 F4 == IF newBranch THEN WriteFile(F3, RefPath(cd[1], branch), <<>>)
                       ELSE F3
             IN  [ok |-> TRUE, fs |-> F4]

\* git worktree remove <path> --force
GitWorktreeRemove(F, base, path, fault) ==
    LET cd == GitCommonDir(F, base)
        regs == IF cd = None THEN {}
                ELSE { d \in GitRegistrations(F, cd[1]) :
                         GitRegisteredPath(F, d) = Some(path) }
    IN  IF regs = {} \/ ~IsFile(F, Append(path, ".git")) \/ fault \in { "remove", "rmtree" }
        THEN [ok |-> FALSE, fs |-> F]
        ELSE LET F1 == RmTree(F, path)
             IN  [ok |-> TRUE,
                  fs |-> [q \in { r \in DOMAIN F1 :
                                    \A d \in regs : ~IsPrefix(d, r) } |-> F1[q]]]

\* git worktree prune: drops the registrations whose worktree is gone.
GitWorktreePrune(F, base) ==
    LET cd == GitCommonDir(F, base)
        gone == IF cd = None THEN {}
                ELSE { d \in GitRegistrations(F, cd[1]) :
                         \/ GitRegisteredPath(F, d) = None
                         \/ ~Exists(F, GitRegisteredPath(F, d)[1]) }
    IN  [ok |-> cd # None,
         fs |-> [q \in { r \in DOMAIN F : \A d \in gone : ~IsPrefix(d, r) } |-> F[q]]]

Logged(W, entry) == [W EXCEPT !.log = Append(@, entry)]
\* A call's result: the value returned, or the error raised.
NoResult == [ok |-> FALSE, val |-> <<>>, err |-> "none"]
Returns(W, v) == [W EXCEPT !.res = [ok |-> TRUE, val |-> <<v>>, err |-> ""]]
Raises(W, e) == [W EXCEPT !.res = [ok |-> FALSE, val |-> <<>>, err |-> e]]

----------------------------------------------------------------------------
(* repo_manager.py: RepositoryManager                                      *)

\* The fetch interval, in ticks of the clock.
fetch_interval == 1

RepositoryManager_repo_exists(W, owner, repo) ==
    LET path == RepositoryManager_get_repo_path(owner, repo)
    IN  /\ Exists(W.fs, path)
        /\ (Exists(W.fs, Append(path, "HEAD")) \/ Exists(W.fs, Append(path, ".git")))

\* get_repo's existence check of the backing directory
RepoCheckSkipped(W, owner, repo) == TRUE
RepoCheck(W, owner, repo) == RepositoryManager_repo_exists(W, owner, repo)

RepositoryManager_get_repo(W, owner, repo) ==
    LET base_repo == MetadataStorage_get_repository(W, owner, repo)
    IN  IF base_repo # None /\ ~RepoCheck(W, owner, repo) THEN None ELSE base_repo

\* result.stdout.strip().split("/")[-1]
RECURSIVE LastComponent(_)
LastComponent(cs) ==
    IF \E i \in DOMAIN cs : cs[i] = "/"
    THEN LastComponent(Tail(cs)) ELSE cs

\* `"origin/main" in branches`: a substring test on the output of
\* git branch -r, whose lines are the remote-tracking names origin/<branch>.
IsSubstring(pattern, text) ==
    \E i \in 0..(Len(text) - Len(pattern)) :
        SubSeq(text, i + 1, i + Len(pattern)) = pattern

ListingContains(listing, name) ==
    \E b \in listing :
        IsSubstring(<<"o","r","i","g","i","n","/">> \o name,
                    <<"o","r","i","g","i","n","/">> \o b)

NameMain == <<"m","a","i","n">>
NameMaster == <<"m","a","s","t","e","r">>

\* _get_default_branch on the outcomes of its three subprocesses: head and
\* remote_head are the branches HEAD and refs/remotes/origin/HEAD point to
\* (None when git symbolic-ref fails), listing the branches git branch -r
\* prints (None when it fails).
GetDefaultBranchFrom(head, remote_head, listing) ==
    IF head # None
    THEN Str(LastComponent(<<"r","e","f","s","/","h","e","a","d","s","/">>
                           \o head[1]))
    ELSE IF remote_head # None
    THEN Str(LastComponent(
                 <<"r","e","f","s","/","r","e","m","o","t","e","s","/",
                   "o","r","i","g","i","n","/">> \o remote_head[1]))
    ELSE IF listing # None /\ ListingContains(listing[1], NameMain) THEN "main"
    ELSE IF listing # None /\ ListingContains(listing[1], NameMaster) THEN "master"
    ELSE "main"

\* On the file system of the model: a bare clone has no remote-tracking
\* refs, so only HEAD can answer.
RepositoryManager_get_default_branch(F, path) ==
    LET cd == GitCommonDir(F, path)
    IN  IF cd # None /\ IsFile(F, Append(cd[1], "HEAD"))
        THEN GetDefaultBranchFrom(Some(F[Append(cd[1], "HEAD")].content), None,
                                  Some({}))
        ELSE GetDefaultBranchFrom(None, None, None)

\* The except clauses of clone_repo and create_worktree: the partially
\* materialized directory is removed before the error propagates.
CleanupPartialNever(F, path) == F
CleanupPartial(F, path) == IF Exists(F, path) THEN RmTree(F, path) ELSE F

\* clone_repo's short-circuit: the path exists and get_repo has metadata
CloneShortCircuitNever(W, owner, repo) == FALSE
CloneShortCircuit(W, owner, repo) ==
    /\ Exists(W.fs, RepositoryManager_get_repo_path(owner, repo))
    /\ RepositoryManager_get_repo(W, owner, repo) # None

RepositoryManager_clone_repo(W, owner, repo, remote_url, fault) ==
    LET repo_path == RepositoryManager_get_repo_path(owner, repo)
    IN  IF CloneShortCircuit(W, owner, repo)
        THEN Returns(W, RepositoryManager_get_repo(W, owner, repo)[1])
        ELSE LET W1 == [W EXCEPT !.fs = MkdirP(@, Parent(repo_path))]
                 g == GitCloneBare(W1.fs, repo_path, fault)
                 W2 == Logged([W1 EXCEPT !.fs = g.fs],
                              [cmd |-> "clone", path |-> repo_path, ok |-> g.ok])
                 base_repo == BaseRepository(owner, repo, remote_url, repo_path,
                                  RepositoryManager_get_default_branch(g.fs, repo_path),
                                  Some(W.now), <<>>)
             IN  IF g.ok
                 THEN Returns(MetadataStorage_add_repository(W2, base_repo), base_repo)
                 ELSE Raises([W2 EXCEPT !.fs = CleanupPartial(@, repo_path)],
                             "clone failed")

RepositoryManager_fetch_repo(W, owner, repo, fault) ==
    LET repo_path == RepositoryManager_get_repo_path(owner, repo)
        ok == GitFetchAll(W.fs, repo_path, fault)
        W1 == Logged(W, [cmd |-> "fetch", path |-> repo_path, ok |-> ok])
        base_repo == MetadataStorage_get_repository(W1, owner, repo)
    IN  IF ~Exists(W.fs, repo_path) THEN Raises(W, "not found")
        ELSE IF ~ok THEN Raises(W1, "fetch failed")
        ELSE IF base_repo # None
        THEN Returns(MetadataStorage_add_repository(
                         W1, [base_repo[1] EXCEPT !.last_fetched = Some(W.now)]), None)
        ELSE Returns(W1, None)

RepositoryManager_should_fetch_always(W, repo) == TRUE
RepositoryManager_should_fetch(W, repo) ==
    \/ repo.last_fetched = None
    \/ W.now - repo.last_fetched[1] > fetch_interval

RepositoryManager_ensure_repo(W, owner, repo, remote_url, auto_fetch, fault) ==
    IF /\ RepositoryManager_repo_exists(W, owner, repo)
       /\ RepositoryManager_get_repo(W, owner, repo) # None
    THEN LET existing_repo == RepositoryManager_get_repo(W, owner, repo)[1]
             W1 == IF auto_fetch /\ RepositoryManager_should_fetch(W, existing_repo)
                   THEN RepositoryManager_fetch_repo(W, owner, repo, fault)
                   ELSE W
         IN  Returns(W1, MetadataStorage_get_repository(W1, owner, repo)[1])
    ELSE RepositoryManager_clone_repo(W, owner, repo, remote_url, fault)

\* remove_repository: the stored record goes, then the directory when asked.
RepositoryManager_remove_repository(W, owner, repo, remove_directory) ==
    LET W1 == MetadataStorage_remove_repository(W, owner, repo)
        repo_path == RepositoryManager_get_repo_path(owner, repo)
    IN  Returns(IF remove_directory /\ Exists(W1.fs, repo_path)
                THEN [W1 EXCEPT !.fs = RmTree(@, repo_path)] ELSE W1,
                None)

----------------------------------------------------------------------------
(* worktree_manager.py: WorktreeManager                                    *)

max_len == 50

WorktreeManager_worktree_exists(W, owner, repo, branch) ==
    LET path == WorktreeManager_get_worktree_path(owner, repo, branch)
    IN  Exists(W.fs, path) /\ Exists(W.fs, Append(path, ".git"))

\* get_worktree's existence check of the worktree directory
WorktreeCheckSkipped(W, owner, repo, branch) == TRUE
WorktreeCheck(W, owner, repo, branch) ==
    WorktreeManager_worktree_exists(W, owner, repo, branch)

WorktreeManager_get_worktree(W, owner, repo, branch) ==
    LET worktree == MetadataStorage_get_worktree(W, owner, repo, branch)
    IN  IF worktree # None /\ ~WorktreeCheck(W, owner, repo, branch)
        THEN None ELSE worktree

WorktreeManager_generate_workspace_id(owner, repo, branch) ==
    LET sanitized == sanitize_chars(branch)
        base == owner \o "-" \o repo
        available_for_branch == max_len - Len(base) - 1
        cut == IF 0 < available_for_branch /\ available_for_branch < Len(sanitized)
               THEN SubSeq(sanitized, 1, available_for_branch) ELSE sanitized
    IN  base \o "-" \o Str(cut)

WorktreeManager_is_bare_repo(F, repo_path) ==
    Exists(F, Append(repo_path, "HEAD")) /\ ~Exists(F, Append(repo_path, ".git"))

\* The relative pointers _fix_worktree_paths writes.
RelGitdirFlat(is_bare, worktree_name) == <<"..", "worktrees", worktree_name>>
RelGitdir(is_bare, worktree_name) ==
    IF is_bare THEN <<"..", "..", "worktrees", worktree_name>>
    ELSE <<"..", "..", ".git", "worktrees", worktree_name>>

RelWorktreeSameDepth(is_bare, dir_name) == <<"..", "..", ".worktrees", dir_name>>
RelWorktree(is_bare, dir_name) ==
    IF is_bare THEN <<"..", "..", ".worktrees", dir_name>>
    ELSE <<"..", "..", "..", ".worktrees", dir_name>>

\* The I/O failures of the rewrite: reading the .git file, writing it,
\* writing the reverse pointer.  Each raises OSError inside the try, which
\* the except clause logs and swallows; the file of the failed call is left
\* as it was.
FixFaults == { "fix_read", "fix_git", "fix_gitdir" }

KeepAbsolute(F, worktree_path, base_repo_path, fault) == F
WorktreeManager_fix_worktree_paths(F, worktree_path, base_repo_path, fault) ==
    LET git_file == Append(worktree_path, ".git")
    IN  IF ~Exists(F, git_file) \/ IsDir(F, git_file) THEN F
        ELSE IF fault = "fix_read" THEN F
        ELSE LET worktree_name == Name(F[git_file].content.path)
                 is_bare == WorktreeManager_is_bare_repo(F, base_repo_path)
                 gitdir_file ==
                     IF is_bare
                     THEN base_repo_path \o <<"worktrees", worktree_name, "gitdir">>
                     ELSE base_repo_path \o <<".git", "worktrees", worktree_name, "gitdir">>
                 F1 == WriteFile(F, git_file,
                                 Pointer(FALSE, RelGitdir(is_bare, worktree_name)))
             IN  IF fault = "fix_git" THEN F
                 ELSE IF Exists(F1, gitdir_file) /\ fault # "fix_gitdir"
                 THEN WriteFile(F1, gitdir_file,
                          Pointer(FALSE, RelWorktree(is_bare, Name(worktree_path))))
                 ELSE F1

\* create_worktree's short-circuit: the path exists and get_worktree has
\* metadata
CreateShortCircuitNever(W, owner, repo, branch) == FALSE
CreateShortCircuit(W, owner, repo, branch) ==
    /\ Exists(W.fs, WorktreeManager_get_worktree_path(owner, repo, branch))
    /\ WorktreeManager_get_worktree(W, owner, repo, branch) # None

\* git ls-remote --heads origin <pattern>: the advertised heads whose name
\* matches the pattern at its tail, from the start of the name or from a
\* "/" (a head f/x is listed for the pattern x).  A remote advertises only
\* valid ref names.
TailMatch(pattern, head) ==
    /\ pattern # <<>>
    /\ Len(head) >= Len(pattern)
    /\ SubSeq(head, Len(head) - Len(pattern) + 1, Len(head)) = pattern
    /\ Len(head) > Len(pattern) => head[Len(head) - Len(pattern)] = "/"

GitLsRemoteHeads(F, base, heads, pattern) ==
    IF GitCommonDir(F, base) = None THEN {}
    ELSE { h \in heads : GitValidBranchName(h) /\ TailMatch(pattern, h) }

\* The heads a remote advertises when all that is known is whether it has
\* the branch asked for.
AdvertisedHeads(branch, remoteHas) == IF remoteHas THEN { branch } ELSE {}

\* create_worktree once the base repository is resolved; heads are the
\* branches of the remote at the time of the call.
CreateWorktreeAt(W, owner, repo, branch, fault, heads) ==
    LET worktree_path == WorktreeManager_get_worktree_path(owner, repo, branch)
        base_repo_path == RepositoryManager_get_repo_path(owner, repo)
    IN  IF CreateShortCircuit(W, owner, repo, branch)
        THEN Returns(W, WorktreeManager_get_worktree(W, owner, repo, branch)[1])
        ELSE
        LET W1 == [W EXCEPT !.fs = MkdirP(@, Parent(worktree_path))]
            branch_exists == GitBranchExists(W1.fs, base_repo_path, branch)
            listed == GitLsRemoteHeads(W1.fs, base_repo_path, heads, branch)
            remote_branch_exists == listed # {}
            remoteHas == branch \in heads /\ GitValidBranchName(branch)
            F2 == IF ~branch_exists /\ remote_branch_exists
                  THEN GitFetchRef(W1.fs, base_repo_path, branch, remoteHas)
                  ELSE W1.fs
            newBranch == ~branch_exists /\ ~remote_branch_exists
            g == GitWorktreeAdd(F2, base_repo_path, worktree_path, branch,
                                newBranch, fault)
            queries ==
                << [cmd |-> "show-ref", branch |-> branch, ok |-> branch_exists] >>
                \o ( IF branch_exists THEN <<>>
                     ELSE << [cmd |-> "ls-remote", branch |-> branch,
                              remoteHas |-> remoteHas, ok |-> TRUE] >> )
                \o ( IF ~branch_exists /\ remote_branch_exists
                     THEN << [cmd |-> "fetch origin", branch |-> branch,
                              ok |-> remoteHas] >>
                     ELSE <<>> )
            W3 == Logged([W1 EXCEPT !.fs = g.fs, !.log = @ \o queries],
                         [cmd |-> "worktree add", path |-> worktree_path,
                          branch |-> branch, newBranch |-> newBranch,
                          ok |-> g.ok])
            worktree_info ==
                WorktreeInfo(owner, repo, branch, worktree_path,
                    WorktreeManager_generate_workspace_id(owner, repo, branch),
                    W.now, W.now, None)
        IN  IF g.ok
            THEN Returns(
                     MetadataStorage_add_worktree(
                         [W3 EXCEPT !.fs = WorktreeManager_fix_worktree_paths(
                                               @, worktree_path, base_repo_path,
                                               fault)],
                         worktree_info),
                     worktree_info)
            ELSE Raises([W3 EXCEPT !.fs = CleanupPartial(@, worktree_path)],
                        "worktree failed")

\* remote_url is None or Some(url)
WorktreeManager_create_worktree_heads(W, owner, repo, branch, remote_url, fault, heads) ==
    IF remote_url = None
    THEN IF RepositoryManager_get_repo(W, owner, repo) = None
         THEN Raises(W, "not found")
         ELSE CreateWorktreeAt(W, owner, repo, branch, fault, heads)
    ELSE LET W0 == RepositoryManager_ensure_repo(
                       W, owner, repo, remote_url[1], TRUE, fault)
         IN  IF ~W0.res.ok THEN W0
             ELSE CreateWorktreeAt(W0, owner, repo, branch, fault, heads)

WorktreeManager_create_worktree(W, owner, repo, branch, remote_url, fault, remoteHas) ==
    WorktreeManager_create_worktree_heads(W, owner, repo, branch, remote_url, fault,
                                          AdvertisedHeads(branch, remoteHas))

\* remove_worktree's fallback after a failed git removal
ForceRemoveNever(F, worktree_path) == F
ForceRemove(F, worktree_path) ==
    IF Exists(F, worktree_path) THEN RmTree(F, worktree_path) ELSE F

WorktreeManager_remove_worktree(W, owner, repo, branch, fault) ==
    LET worktree_path == WorktreeManager_get_worktree_path(owner, repo, branch)
        base_repo_path == RepositoryManager_get_repo_path(owner, repo)
        g == GitWorktreeRemove(W.fs, base_repo_path, worktree_path, fault)
        pr == GitWorktreePrune(g.fs, base_repo_path)
        W1 == Logged(W, [cmd |-> "worktree remove", path |-> worktree_path,
                         ok |-> g.ok])
        W2 == IF g.ok /\ pr.ok
              THEN Logged([W1 EXCEPT !.fs = pr.fs],
                          [cmd |-> "worktree prune", path |-> base_repo_path,
                           ok |-> TRUE])
              ELSE [W1 EXCEPT !.fs = ForceRemove(g.fs, worktree_path)]
    IN  IF ~Exists(W.fs, worktree_path)
        THEN Returns(MetadataStorage_remove_worktree(W, owner, repo, branch), None)
        \* shutil.rmtree raising in the except branch (fault "rmtree") leaves
        \* remove_worktree as OSError.
        ELSE IF ~g.ok /\ fault = "rmtree" THEN Raises(W1, "OSError")
        ELSE Returns(MetadataStorage_remove_worktree(W2, owner, repo, branch), None)

WorktreeManager_list_worktrees(W, owner, repo) ==
    MetadataStorage_list_worktrees(W, owner, repo)

\* worktree.last_used = datetime.now()
RefreshLastUsedNever(worktree, t) == worktree
RefreshLastUsed(worktree, t) == [worktree EXCEPT !.last_used = t]

WorktreeManager_ensure_worktree(W, owner, repo, branch, remote_url, fault, remoteHas) ==
    IF /\ WorktreeManager_worktree_exists(W, owner, repo, branch)
       /\ WorktreeManager_get_worktree(W, owner, repo, branch) # None
    THEN LET worktree ==
                 RefreshLastUsed(
                     WorktreeManager_get_worktree(W, owner, repo, branch)[1], W.now)
         IN  Returns(MetadataStorage_add_worktree(W, worktree), worktree)
    ELSE WorktreeManager_create_worktree(W, owner, repo, branch, remote_url,
                                         fault, remoteHas)

\* if days is None: days = 30
default_days == 30

\* worktree.last_used < cutoff
StaleOrAtCutoff(worktree, cutoff) == worktree.last_used <= cutoff
Stale(worktree, cutoff) == worktree.last_used < cutoff

\* The loop over the listed worktrees: remove_worktree on each stale one,
\* appended to pruned unless the removal raised.  The removals touch
\* different store keys, so their order does not change the outcome.
RECURSIVE PruneEach(_, _, _, _)
PruneEach(W, todo, pruned, fault) ==
    IF todo = {} THEN Returns(W, pruned)
    ELSE LET worktree == CHOOSE w \in todo : TRUE
             W1 == WorktreeManager_remove_worktree(
                       W, worktree.owner, worktree.repo, worktree.branch, fault)
         IN  PruneEach(W1, todo \ {worktree},
                       IF W1.res.ok THEN pruned \cup {worktree} ELSE pruned, fault)

\* days is None or Some(n); the clock counts days.
WorktreeManager_prune_stale_worktrees(W, days, fault) ==
    LET cutoff == W.now - (IF days = None THEN default_days ELSE days[1])
    IN  PruneEach(W, { w \in MetadataStorage_list_all_worktrees(W) :
                          Stale(w, cutoff) }, {}, fault)

\* git worktree list --porcelain: the main working tree (bare, or with the
\* branch of its HEAD) and every registered worktree with the branch its
\* HEAD names; a registration whose directory is gone is still listed.
GitWorktreeList(F, base, fault) ==
    LET cd == GitCommonDir(F, base)
    IN  IF cd = None \/ fault = "list" THEN [ok |-> FALSE, out |-> {}]
        ELSE [ok |-> TRUE,
              out |-> { [worktree |-> base,
                         branch |-> IF cd[1] # base /\ IsFile(F, Append(cd[1], "HEAD"))
                                    THEN Some(F[Append(cd[1], "HEAD")].content)
                                    ELSE None] }
                      \cup { [worktree |-> GitRegisteredPath(F, d)[1],
                              branch |-> Some(F[Append(d, "HEAD")].content)] :
                               d \in { e \in GitRegistrations(F, cd[1]) :
                                         /\ IsFile(F, Append(e, "HEAD"))
                                         /\ GitRegisteredPath(F, e) # None } }]

\* sync_with_git: the branches of the `branch` lines whose `worktree` line
\* is not the base repository (no branch name of the model holds
\* "refs/heads/", which the code strips wherever it occurs).
ParsedBranches(out, base_repo_path) ==
    { e.branch[1] : e \in { x \in out : x.branch # None /\ x.worktree # base_repo_path } }

\* if worktree.branch not in git_worktrees
UnreportedNever(worktree, git_worktrees) == FALSE
Unreported(worktree, git_worktrees) == worktree.branch \notin git_worktrees

\* The loop of sync_with_git over the stored worktrees to drop.
RECURSIVE DropEach(_, _)
DropEach(W, todo) ==
    IF todo = {} THEN Returns(W, None)
    ELSE LET worktree == CHOOSE w \in todo : TRUE
         IN  DropEach(MetadataStorage_remove_worktree(
                          W, worktree.owner, worktree.repo, worktree.branch),
                      todo \ {worktree})

WorktreeManager_sync_with_git(W, owner, repo, fault) ==
    LET base_repo_path == RepositoryManager_get_repo_path(owner, repo)
        g == GitWorktreeList(W.fs, base_repo_path, fault)
        W1 == Logged(W, [cmd |-> "worktree list", path |-> base_repo_path,
                         out |-> g.out, ok |-> g.ok])
        git_worktrees == ParsedBranches(g.out, base_repo_path)
    IN  IF ~Exists(W.fs, base_repo_path) THEN Returns(W, None)
        ELSE IF ~g.ok THEN Returns(W1, None)
        ELSE DropEach(W1, { w \in WorktreeManager_list_worktrees(W1, owner, repo) :
                              Unreported(w, git_worktrees) })

----------------------------------------------------------------------------
(* workspace_manager.py: WorkspaceManager._create_workspace_locked          *)

\* The exit of `devpod up`.
DevpodOutcomes == { "ok", "fail" }

\* The workspace id: owner-repo for a shared container, else the id passed
\* when it is not empty, else the sanitized branch name.
ChosenWorkspaceIdExplicitFirst(owner, repo, branch, workspace_id, share_container) ==
    IF workspace_id # None /\ workspace_id[1] # "" THEN workspace_id[1]
    ELSE IF share_container THEN owner \o "-" \o repo
    ELSE sanitize_branch_name(branch)
ChosenWorkspaceId(owner, repo, branch, workspace_id, share_container) ==
    IF share_container THEN owner \o "-" \o repo
    ELSE IF workspace_id # None /\ workspace_id[1] # "" THEN workspace_id[1]
    ELSE sanitize_branch_name(branch)

\* base_repo_path = worktree.local_path.parent.parent
base_repo_path_worktree(worktree) == worktree.local_path
base_repo_path(worktree) == Parent(Parent(worktree.local_path))

\* _find_shared_workspace: the id owner-repo when `devpod list` shows it.
WorkspaceManager_find_shared_workspace(owner, repo, listed) ==
    IF listed THEN Some(owner \o "-" \o repo) ELSE None

\* worktree.devpod_workspace_id = workspace_id, after a successful `up`
RecordDevpodIdNever(worktree, id) == worktree
RecordDevpodId(worktree, id) == [worktree EXCEPT !.devpod_workspace_id = Some(id)]

\* _create_workspace_locked from the world W1 its ensure_worktree call ended
\* in.  env: whether `devpod list` shows the shared workspace, and the exit
\* of `devpod up`.
WorkspaceManager_create_workspace_locked(W1, owner, repo, branch, workspace_id, share_container, env) ==
    LET worktree == W1.res.val[1]
        id == ChosenWorkspaceId(owner, repo, branch, workspace_id, share_container)
        existing_shared ==
            IF share_container
            THEN WorkspaceManager_find_shared_workspace(owner, repo, env.listed)
            ELSE None
        W2 == IF share_container
              THEN Logged(W1, [cmd |-> "list", found |-> env.listed, ok |-> TRUE])
              ELSE W1
        W3 == Logged(W2, [cmd |-> "up", path |-> base_repo_path(worktree),
                          id |-> id, ok |-> env.up = "ok"])
        stored == RecordDevpodId(worktree, id)
    IN  IF ~W1.res.ok THEN W1
        ELSE IF existing_shared # None
        THEN Returns(MetadataStorage_add_worktree(
                         W2, [worktree EXCEPT
                                 !.devpod_workspace_id = existing_shared]),
                     [worktree EXCEPT !.devpod_workspace_id = existing_shared])
        ELSE IF env.up # "ok" THEN Raises(W3, "devpod failed")
        ELSE Returns(MetadataStorage_add_worktree(W3, stored), stored)

\* delete_workspace: the worktrees of the store whose devpod_workspace_id
\* or workspace_id is the id asked for; the loop takes the first of them in
\* the order of the dictionary.
DeleteMatches(W, workspace_id) ==
    { w \in MetadataStorage_list_all_worktrees(W) :
        w.devpod_workspace_id = Some(workspace_id) \/ w.workspace_id = workspace_id }

\* except Exception around remove_worktree: logged, not raised
SwallowNever(W) == W
Swallow(W) == IF W.res.ok THEN W ELSE Returns(W, None)

\* delete_workspace; worktree_to_remove is None or Some of the worktree the
\* loop found, env the exit of `devpod delete` and the fault of the removal.
WorkspaceManager_delete_workspace(W, workspace_id, remove_worktree, worktree_to_remove, env) ==
    LET W1 == Logged(W, [cmd |-> "delete", id |-> workspace_id,
                         ok |-> env.delete = "ok"])
        W2 == IF remove_worktree /\ worktree_to_remove # None
              THEN Swallow(WorktreeManager_remove_worktree(
                               W1, worktree_to_remove[1].owner,
                               worktree_to_remove[1].repo,
                               worktree_to_remove[1].branch, env.fault))
              ELSE W1
    IN  IF ~W2.res.ok /\ W2.res.err # "none" THEN W2
        ELSE Returns(W2, IF env.delete = "ok" THEN "deleted" ELSE "")

\* list_workspaces: `devpod list --output json`; a non-zero exit or no
\* output gives the empty list.  listing: the exit of the tool and the ids
\* it prints.  Each workspace is marked with the backend it belongs to.
WorkspaceManager_list_workspaces(W, listing) ==
    LET ids == IF listing.ok THEN listing.ids ELSE {}
        known == { w.workspace_id : w \in MetadataStorage_list_all_worktrees(W) }
                 \cup { w.devpod_workspace_id[1] :
                          w \in { v \in MetadataStorage_list_all_worktrees(W) :
                                    v.devpod_workspace_id \notin { None, Some("") } } }
    IN  Returns(Logged(W, [cmd |-> "list", ids |-> ids, found |-> FALSE,
                           ok |-> listing.ok]),
                { [id |-> i, backend |-> IF i \in known THEN "worktree" ELSE "devpod"] :
                    i \in ids })

\* sync_workspaces: worktree.devpod_workspace_id and
\* worktree.devpod_workspace_id not in devpod_ids
WorkspaceGoneOrListed(worktree, devpod_ids) ==
    worktree.devpod_workspace_id \notin { None, Some("") }
WorkspaceGone(worktree, devpod_ids) ==
    /\ worktree.devpod_workspace_id \notin { None, Some("") }
    /\ worktree.devpod_workspace_id[1] \notin devpod_ids

\* The loop of sync_workspaces over the worktrees to clear; they have
\* different store keys, so their order does not change the outcome.
RECURSIVE ClearEach(_, _)
ClearEach(W, todo) ==
    IF todo = {} THEN Returns(W, None)
    ELSE LET worktree == CHOOSE w \in todo : TRUE
         IN  ClearEach(MetadataStorage_add_worktree(
                           W, [worktree EXCEPT !.devpod_workspace_id = None]),
                       todo \ {worktree})

WorkspaceManager_sync_workspaces(W, listing) ==
    LET W1 == WorkspaceManager_list_workspaces(W, listing)
        devpod_ids == { ws.id : ws \in W1.res.val[1] }
    IN  ClearEach(W1, { w \in MetadataStorage_list_all_worktrees(W1) :
                          WorkspaceGone(w, devpod_ids) })

----------------------------------------------------------------------------
(* Worlds: the state an operation of instance i reads and writes            *)

World(i) ==
    [mem |-> mem[i], disk |-> disk, fs |-> fs, now |-> now, log |-> log,
     res |-> NoResult]

Commit(i, W) ==
    /\ mem' = [mem EXCEPT ![i] = W.mem]
    /\ disk' = W.disk
    /\ fs' = W.fs
    /\ log' = W.log

EmptyFs == [p \in { repos_dir } |-> DirNode]

NoCall ==
    [owner |-> "", repo |-> "", branch |-> <<>>, early |-> FALSE,
     fault |-> "none", up |-> None]
NoLast ==
    [op |-> "none", owner |-> "", repo |-> "", branch |-> <<>>, res |-> NoResult,
     repeat |-> FALSE, prev |-> NoResult, before |-> None, present |-> FALSE,
     registered |-> FALSE, fault |-> "none", workspace_id |-> None,
     share_container |-> FALSE, days |-> None, args |-> <<>>]

IdleProcs ==
    /\ locks = EmptyMap
    /\ pc = [p \in Procs |-> "idle"]
    /\ call = [p \in Procs |-> NoCall]
    /\ ret = [p \in Procs |-> None]
    /\ shared = TRUE

ProcsUnchanged == UNCHANGED <<locks, pc, call, ret, shared>>

Tick ==
    /\ now < MaxTime
    /\ now' = now + 1
    /\ UNCHANGED <<mem, disk, fs, locks, pc, call, ret, shared, log, last, nops>>

----------------------------------------------------------------------------
(* SpecStore: sequences of add_worktree / remove_worktree calls on one      *)
(* MetadataStorage instance                                                *)

FreshRepository(owner, repo) ==
    BaseRepository(owner, repo, RemoteUrl(owner, repo),
                   RepositoryManager_get_repo_path(owner, repo), "m", None, <<>>)

InitStore ==
    /\ \E stored \in SUBSET RepoPairs :
          LET m == [repositories |->
                        [k \in { RepoKey(rp[1], rp[2]) : rp \in stored } |->
                            LET rp == CHOOSE q \in stored : RepoKey(q[1], q[2]) = k
                            IN  FreshRepository(rp[1], rp[2])],
                    worktrees |-> EmptyMap]
          IN  /\ mem = [i \in Procs |-> m]
              /\ disk = ToDocument(m)
    /\ fs = EmptyFs
    /\ now = 0
    /\ log = <<>>
    /\ last = NoLast
    /\ nops = 0
    /\ IdleProcs

StoreAddWorktree ==
    \E rp \in RepoPairs, b \in AllBranches :
        LET wt == WorktreeInfo(rp[1], rp[2], b,
                      WorktreeManager_get_worktree_path(rp[1], rp[2], b),
                      rp[1] \o "-" \o rp[2], now, now, None)
            W == MetadataStorage_add_worktree(World(1), wt)
        IN  /\ nops < MaxStoreOps
            /\ Commit(1, W)
            /\ last' = [NoLast EXCEPT !.op = "store_add_worktree", !.owner = rp[1],
                        !.repo = rp[2], !.branch = b,
                        !.present = MetadataStorage_get_worktree(
                                        World(1), rp[1], rp[2], b) # None]
            /\ nops' = nops + 1
            /\ UNCHANGED now
            /\ ProcsUnchanged

StoreRemoveWorktree ==
    \E rp \in RepoPairs, b \in AllBranches :
        LET W == MetadataStorage_remove_worktree(World(1), rp[1], rp[2], b)
        IN  /\ nops < MaxStoreOps
            /\ Commit(1, W)
            /\ last' = [NoLast EXCEPT !.op = "store_remove_worktree", !.owner = rp[1],
                        !.repo = rp[2], !.branch = b,
                        !.present = MetadataStorage_get_worktree(
                                        World(1), rp[1], rp[2], b) # None]
            /\ nops' = nops + 1
            /\ UNCHANGED now
            /\ ProcsUnchanged

NextStore == StoreAddWorktree \/ StoreRemoveWorktree

SpecStore == InitStore /\ [][NextStore]_vars

\* The branches with a stored WorktreeInfo for (owner, repo) in instance i
StoredBranches(i, owner, repo) ==
    { w.branch : w \in MetadataStorage_list_worktrees(World(i), owner, repo) }

\* C5: whenever a BaseRepository is stored, its worktrees list has no
\* duplicates and holds exactly the branches that have a stored WorktreeInfo
\* for that (owner, repo), after any sequence of add_worktree and
\* remove_worktree calls.
C5_WorktreesListMatchesStore ==
    \A rp \in RepoPairs :
        RepoKey(rp[1], rp[2]) \in DOMAIN mem[1].repositories =>
            LET wts == mem[1].repositories[RepoKey(rp[1], rp[2])].worktrees
            IN  /\ NoDup(wts)
                /\ Range(wts) = StoredBranches(1, rp[1], rp[2])

\* A removal of a stored worktree that leaves another branch of the same
\* repository listed.
C5_Witness ==
    /\ last.op = "store_remove_worktree"
    /\ last.present
    /\ RepoKey(last.owner, last.repo) \in DOMAIN mem[1].repositories
    /\ mem[1].repositories[RepoKey(last.owner, last.repo)].worktrees # <<>>

----------------------------------------------------------------------------
(* SpecMgr: one process calling the Repository Manager and the Worktree     *)
(* Manager one operation after the other, with directories deleted          *)
(* out-of-band in between.                                                  *)

\* The repository and the branches the operations are called with.
MgrPairs == { <<"a", "b-c">> }
MgrBranches == { BrMain, BrFeatSlash }

\* The calls of create_worktree, ensure_worktree and remove_worktree: the
\* branch, whether a remote URL is passed, the subprocess made to fail, and
\* whether the remote has the branch.  A failing clone or fetch needs the
\* URL; the branch with the empty sanitized name is called with everything
\* else behaving normally.
CallInput(b, withUrl, fault, remoteHas) ==
    [branch |-> b, withUrl |-> withUrl, fault |-> fault, remoteHas |-> remoteHas]

CreateInputs ==
    { CallInput(b, u, f, FALSE) : b \in MgrBranches, u \in BOOLEAN,
                                  f \in { "none", "add" } }
    \cup { CallInput(b, TRUE, f, FALSE) :
              b \in MgrBranches, f \in { "clone", "fetch", "add_partial" } }
    \cup { CallInput(b, TRUE, "none", TRUE) : b \in MgrBranches }
    \cup { CallInput(BrDots, TRUE, "none", FALSE) }

EnsureInputs ==
    { CallInput(b, u, "none", FALSE) : b \in MgrBranches, u \in BOOLEAN }
    \cup { CallInput(b, TRUE, "add", FALSE) : b \in MgrBranches }

RemoveInputs ==
    { CallInput(b, FALSE, f, FALSE) : b \in MgrBranches, f \in { "none", "remove" } }
    \cup { CallInput(BrDots, FALSE, "none", FALSE) }

\* The calls of create_workspace: the branch, the workspace id passed,
\* whether the container is shared, and the outcomes of the subprocesses
\* and of the lock request.
WorkspaceInput(b, workspace_id, share_container, fault, listed, up) ==
    [branch |-> b, workspace_id |-> workspace_id,
     share_container |-> share_container,
     env |-> [fault |-> fault, listed |-> listed, up |-> up]]

WorkspaceInputs ==
    { WorkspaceInput(b, None, FALSE, f, FALSE, u) :
          b \in MgrBranches, f \in { "none", "add" }, u \in DevpodOutcomes }
    \cup { WorkspaceInput(BrMain, Some(w), FALSE, "none", FALSE, "ok") :
              w \in { "w", "" } }
    \cup { WorkspaceInput(BrMain, w, TRUE, "none", l, "ok") :
              w \in { None, Some("w") }, l \in BOOLEAN }
    \cup { WorkspaceInput(BrMain, None, FALSE, "flock", FALSE, "ok") }

UrlOf(owner, repo, withUrl) ==
    IF withUrl THEN Some(RemoteUrl(owner, repo)) ELSE None

\* A non-bare repository of the earlier design: .git inside, main checked out.
LegacyRepoFs(F, path) ==
    LET F1 == WriteFile(F, path \o <<".git", "HEAD">>, BrMain)
    IN  WriteFile(F1, RefPath(Append(path, ".git"), BrMain), <<>>)

RECURSIVE LegacyFs(_, _)
LegacyFs(F, pairs) ==
    IF pairs = {} THEN F
    ELSE LET rp == CHOOSE q \in pairs : TRUE
         IN  LegacyFs(LegacyRepoFs(F, RepositoryManager_get_repo_path(rp[1], rp[2])),
                      pairs \ {rp})

LegacyStore(pairs) ==
    [repositories |->
        [k \in { RepoKey(rp[1], rp[2]) : rp \in pairs } |->
            LET rp == CHOOSE q \in pairs : RepoKey(q[1], q[2]) = k
            IN  [FreshRepository(rp[1], rp[2]) EXCEPT !.last_fetched = Some(0)]],
     worktrees |-> EmptyMap]

InitMgr ==
    /\ \E legacy \in SUBSET MgrPairs :
          /\ mem = [i \in Procs |-> LegacyStore(legacy)]
          /\ disk = ToDocument(LegacyStore(legacy))
          /\ fs = LegacyFs(EmptyFs, legacy)
    /\ now = 0
    /\ log = <<>>
    /\ last = NoLast
    /\ nops = 0
    /\ IdleProcs

SeqWorld == [World(1) EXCEPT !.log = <<>>]

\* The step of a sequential operation op(owner, repo, branch) that ends in
\* world W.
SeqDoneWith(op, owner, repo, branch, fault, workspace_id, share_container, W) ==
    LET repeat == /\ last.op = op /\ last.owner = owner /\ last.repo = repo
                  /\ last.branch = branch /\ last.res.ok
    IN  /\ nops < MaxOps
        /\ Commit(1, W)
        /\ last' = [op |-> op, owner |-> owner, repo |-> repo, branch |-> branch,
                    res |-> W.res, repeat |-> repeat,
                    prev |-> IF repeat THEN last.res ELSE NoResult,
                    before |-> MetadataStorage_get_worktree(
                                   World(1), owner, repo, branch),
                    present |-> Exists(fs, WorktreeManager_get_worktree_path(
                                               owner, repo, branch)),
                    registered |-> GitRegistered(
                                       fs, RepositoryManager_get_repo_path(owner, repo),
                                       WorktreeManager_get_worktree_path(
                                           owner, repo, branch)),
                    fault |-> fault, workspace_id |-> workspace_id,
                    share_container |-> share_container, days |-> None,
                    args |-> <<>>]
        /\ nops' = nops + 1
        /\ UNCHANGED now
        /\ ProcsUnchanged

SeqDone(op, owner, repo, branch, fault, W) ==
    SeqDoneWith(op, owner, repo, branch, fault, None, FALSE, W)

MgrCloneRepo ==
    \E rp \in MgrPairs, fault \in { "none", "clone", "clone_partial" } :
        SeqDone("clone_repo", rp[1], rp[2], <<>>, fault,
                RepositoryManager_clone_repo(SeqWorld, rp[1], rp[2],
                                             RemoteUrl(rp[1], rp[2]), fault))

MgrCreateWorktree ==
    \E rp \in MgrPairs, inp \in CreateInputs :
        SeqDone("create_worktree", rp[1], rp[2], inp.branch, inp.fault,
                WorktreeManager_create_worktree(SeqWorld, rp[1], rp[2], inp.branch,
                    UrlOf(rp[1], rp[2], inp.withUrl), inp.fault, inp.remoteHas))

MgrRemoveWorktree ==
    \E rp \in MgrPairs, inp \in RemoveInputs :
        SeqDone("remove_worktree", rp[1], rp[2], inp.branch, inp.fault,
                WorktreeManager_remove_worktree(SeqWorld, rp[1], rp[2], inp.branch,
                                                inp.fault))

MgrGetRepo ==
    \E rp \in MgrPairs :
        SeqDone("get_repo", rp[1], rp[2], <<>>, "none",
                Returns(SeqWorld, RepositoryManager_get_repo(SeqWorld, rp[1], rp[2])))

MgrGetWorktree ==
    \E rp \in MgrPairs, b \in MgrBranches :
        SeqDone("get_worktree", rp[1], rp[2], b, "none",
                Returns(SeqWorld,
                        WorktreeManager_get_worktree(SeqWorld, rp[1], rp[2], b)))

MgrEnsureWorktree ==
    \E rp \in MgrPairs, inp \in EnsureInputs :
        SeqDone("ensure_worktree", rp[1], rp[2], inp.branch, inp.fault,
                WorktreeManager_ensure_worktree(SeqWorld, rp[1], rp[2], inp.branch,
                    UrlOf(rp[1], rp[2], inp.withUrl), inp.fault, inp.remoteHas))

\* create_workspace by a process no other process contends with:
\* fcntl.flock(f, LOCK_EX) returns at once, or raises OSError (fault
\* "flock") and the exception leaves the call as it is; otherwise
\* ensure_worktree runs, then the rest of the locked section, and the
\* finally clause releases the lock within the call.
MgrCreateWorkspace ==
    \E rp \in MgrPairs, inp \in WorkspaceInputs :
        \E W1 \in { IF inp.env.fault = "flock" THEN Raises(SeqWorld, "OSError")
                    ELSE WorktreeManager_ensure_worktree(
                             SeqWorld, rp[1], rp[2], inp.branch,
                             Some(RemoteUrl(rp[1], rp[2])), inp.env.fault, FALSE) } :
            SeqDoneWith("create_workspace", rp[1], rp[2], inp.branch,
                        inp.env.fault, inp.workspace_id, inp.share_container,
                        WorkspaceManager_create_workspace_locked(
                            W1, rp[1], rp[2], inp.branch, inp.workspace_id,
                            inp.share_container, inp.env))

\* Out-of-band deletion of a worktree directory or of a repository directory.
OobDelete ==
    \E rp \in MgrPairs :
      \E path \in { RepositoryManager_get_repo_path(rp[1], rp[2]) } \cup
                  { WorktreeManager_get_worktree_path(rp[1], rp[2], b) :
                      b \in MgrBranches } :
        /\ nops < MaxOps
        /\ Exists(fs, path)
        /\ fs' = RmTree(fs, path)
        /\ last' = [NoLast EXCEPT !.op = "oob"]
        /\ nops' = nops + 1
        /\ UNCHANGED <<mem, disk, now, log>>
        /\ ProcsUnchanged

NextMgr ==
    \/ MgrCloneRepo
    \/ MgrCreateWorktree
    \/ MgrRemoveWorktree
    \/ MgrGetRepo
    \/ MgrGetWorktree
    \/ MgrEnsureWorktree
    \/ OobDelete
    \/ Tick

SpecMgr == InitMgr /\ [][NextMgr]_vars

\* SpecRepo: repositories cloned and removed, worktrees created and
\* removed, directories deleted out-of-band in between.
MgrRemoveRepository ==
    \E rp \in MgrPairs, remove_directory \in BOOLEAN :
        SeqDone("remove_repository", rp[1], rp[2], <<>>, "none",
                RepositoryManager_remove_repository(SeqWorld, rp[1], rp[2],
                                                    remove_directory))

NextRepo ==
    \/ MgrCloneRepo
    \/ MgrCreateWorktree
    \/ MgrRemoveWorktree
    \/ MgrRemoveRepository
    \/ OobDelete

SpecRepo == InitMgr /\ [][NextRepo]_vars

\* SpecBranch: create_worktree for a branch the remote may or may not have,
\* among other heads of the remote, and remove_worktree in between (the
\* local branch outlives its worktree).
BrTail == <<"x">>
BranchNames == { BrMain, BrFeatSlash, BrTail }
RemoteHeadSets == SUBSET { BrFeatSlash, BrTail }

BranchCreateWorktree ==
    \E rp \in MgrPairs, branch \in BranchNames, heads \in RemoteHeadSets :
        SeqDone("create_worktree", rp[1], rp[2], branch, "none",
                WorktreeManager_create_worktree_heads(
                    SeqWorld, rp[1], rp[2], branch,
                    Some(RemoteUrl(rp[1], rp[2])), "none", heads))

BranchRemoveWorktree ==
    \E rp \in MgrPairs, branch \in BranchNames :
        SeqDone("remove_worktree", rp[1], rp[2], branch, "none",
                WorktreeManager_remove_worktree(SeqWorld, rp[1], rp[2], branch,
                                                "none"))

NextBranch == BranchCreateWorktree \/ BranchRemoveWorktree

SpecBranch == InitMgr /\ [][NextBranch]_vars

\* SpecDel: workspaces created and deleted by one manager.
DeleteInput(workspace_id, remove_worktree, delete, fault) ==
    [workspace_id |-> workspace_id, remove_worktree |-> remove_worktree,
     env |-> [delete |-> delete, fault |-> fault]]

DeleteInputs ==
    { DeleteInput(id, TRUE, "ok", "none") : id \in { "m", "a-b-c-m", "a-b-c", "zz" } }
    \cup { DeleteInput("m", FALSE, d, "none") : d \in DevpodOutcomes }
    \cup { DeleteInput("m", TRUE, "fail", "none") }
    \cup { DeleteInput("m", TRUE, "ok", f) : f \in { "remove", "rmtree" } }

DeleteWorkspace ==
    \E inp \in DeleteInputs :
      \E worktree_to_remove \in
            IF inp.remove_worktree /\ DeleteMatches(SeqWorld, inp.workspace_id) # {}
            THEN { Some(w) : w \in DeleteMatches(SeqWorld, inp.workspace_id) }
            ELSE { None } :
        \E W \in { WorkspaceManager_delete_workspace(
                       SeqWorld, inp.workspace_id, inp.remove_worktree,
                       worktree_to_remove, inp.env) } :
            /\ nops < MaxOps
            /\ Commit(1, W)
            /\ last' = [NoLast EXCEPT !.op = "delete_workspace", !.res = W.res,
                                      !.fault = inp.env.fault,
                                      !.workspace_id = Some(inp.workspace_id),
                                      !.args = [remove_worktree |-> inp.remove_worktree,
                                                worktree |-> worktree_to_remove]]
            /\ nops' = nops + 1
            /\ UNCHANGED now
            /\ ProcsUnchanged

NextDel == MgrCreateWorkspace \/ DeleteWorkspace

SpecDel == InitMgr /\ [][NextDel]_vars

\* SpecSync: workspaces created by one manager, and sync_workspaces against
\* what `devpod list` prints.
Listings ==
    { [ok |-> FALSE, ids |-> {}] }
    \cup { [ok |-> TRUE, ids |-> ids] : ids \in SUBSET { "m", "f-x", "a-b-c" } }

SyncWorkspaces ==
    \E listing \in Listings :
        \E W \in { WorkspaceManager_sync_workspaces(SeqWorld, listing) } :
            /\ nops < MaxOps
            /\ Commit(1, W)
            /\ last' = [NoLast EXCEPT !.op = "sync_workspaces", !.res = W.res]
            /\ nops' = nops + 1
            /\ UNCHANGED now
            /\ ProcsUnchanged

NextSync == MgrCreateWorkspace \/ SyncWorkspaces

SpecSync == InitMgr /\ [][NextSync]_vars

\* SpecGitSync: worktrees of two repositories created by the manager,
\* removed or switched to another branch with git outside the tool,
\* repository directories deleted outside the tool, and sync_with_git.
SyncPairs == { <<"a", "b-c">>, OtherPair }

GitSyncCreate ==
    \E rp \in SyncPairs, branch \in MgrBranches :
        SeqDone("create_worktree", rp[1], rp[2], branch, "none",
                WorktreeManager_create_worktree(
                    SeqWorld, rp[1], rp[2], branch,
                    Some(RemoteUrl(rp[1], rp[2])), "none", FALSE))

\* Outside the tool: `git worktree remove`, `git checkout -b x` inside a
\* worktree, or `rm -rf` of a repository directory.
OobGit ==
    \E rp \in SyncPairs, branch \in MgrBranches :
        LET base == RepositoryManager_get_repo_path(rp[1], rp[2])
            path == WorktreeManager_get_worktree_path(rp[1], rp[2], branch)
            cd == GitCommonDir(fs, base)
            regs == IF cd = None THEN {}
                    ELSE { d \in GitRegistrations(fs, cd[1]) :
                             GitRegisteredPath(fs, d) = Some(path) }
        IN  /\ nops < MaxOps
            /\ \/ /\ GitWorktreeRemove(fs, base, path, "none").ok
                  /\ fs' = GitWorktreeRemove(fs, base, path, "none").fs
               \/ /\ regs # {} /\ Exists(fs, path)
                  /\ fs' = [q \in DOMAIN fs |->
                               IF \E d \in regs : q = Append(d, "HEAD")
                               THEN FileNode(BrTail) ELSE fs[q]]
                  /\ fs' # fs
               \/ /\ branch = BrMain /\ Exists(fs, base)
                  /\ fs' = RmTree(fs, base)
            /\ last' = [NoLast EXCEPT !.op = "oob"]
            /\ nops' = nops + 1
            /\ UNCHANGED <<mem, disk, now, log>>
            /\ ProcsUnchanged

SyncWithGit ==
    \E rp \in SyncPairs, fault \in { "none", "list" } :
        SeqDone("sync_with_git", rp[1], rp[2], <<>>, fault,
                WorktreeManager_sync_with_git(SeqWorld, rp[1], rp[2], fault))

NextGitSync == GitSyncCreate \/ OobGit \/ SyncWithGit

SpecGitSync == InitMgr /\ [][NextGitSync]_vars

----------------------------------------------------------------------------
(* branch_manager.py: BranchManager.  Each method runs git in              *)
(* base_repo_path; heads are the branches of the remote at the time of    *)
(* the call, and a remote-tracking ref <remote>/<branch> is present when   *)
(* the remote has the branch.                                              *)

Upstream(branch) == "origin/" \o Str(branch)

BranchManager_local_branch_exists(F, base, branch) == GitBranchExists(F, base, branch)

BranchManager_remote_branch_exists(F, base, heads, branch) ==
    GitLsRemoteHeads(F, base, heads, branch) # {}

\* git branch <branch> <start_point>; "already exists" is swallowed, any
\* other failure raises.
BranchManager_create_local_branch(W, base, branch, start_point, resolves, fault) ==
    LET cd == GitCommonDir(W.fs, base)
        exists == GitBranchExists(W.fs, base, branch)
        ok == /\ cd # None /\ GitValidBranchName(branch) /\ ~exists
              /\ resolves /\ fault # "branch"
        W1 == Logged(W, [cmd |-> "branch", branch |-> branch,
                         start |-> start_point, ok |-> ok])
    IN  IF ok THEN Returns([W1 EXCEPT !.fs = WriteFile(@, RefPath(cd[1], branch), <<>>)],
                           None)
        ELSE IF exists THEN Returns(W1, None)
        ELSE Raises(W1, "branch failed")

\* git branch --set-upstream-to=<remote>/<branch> <branch>; a failure is
\* logged and swallowed.
BranchManager_track_remote_branch(W, base, branch, tracked) ==
    Returns(Logged(W, [cmd |-> "set-upstream", branch |-> branch,
                       upstream |-> Upstream(branch),
                       ok |-> tracked /\ GitBranchExists(W.fs, base, branch)]),
            None)

\* git push -u <remote> <branch>
BranchManager_push_branch_to_remote(W, base, branch, fault) ==
    LET ok == GitBranchExists(W.fs, base, branch) /\ fault # "push"
        W1 == Logged(W, [cmd |-> "push", branch |-> branch, ok |-> ok])
    IN  IF ok THEN Returns(W1, None) ELSE Raises(W1, "push failed")

BranchManager_ensure_branch_exists(W, base, branch, create_remote, heads, fault) ==
    LET remoteHas == branch \in heads /\ GitValidBranchName(branch)
        local_exists == BranchManager_local_branch_exists(W.fs, base, branch)
        remote_exists == BranchManager_remote_branch_exists(W.fs, base, heads, branch)
        W0 == [W EXCEPT !.log = @ \o
                  << [cmd |-> "show-ref", branch |-> branch, ok |-> local_exists],
                     [cmd |-> "ls-remote", branch |-> branch,
                      remoteHas |-> remoteHas, ok |-> TRUE] >>]
    IN  IF local_exists /\ remote_exists THEN Returns(W0, None)
        ELSE IF ~local_exists /\ remote_exists
        THEN LET W1 == BranchManager_create_local_branch(
                           W0, base, branch, Upstream(branch), remoteHas, fault)
             IN  IF ~W1.res.ok THEN W1
                 ELSE BranchManager_track_remote_branch(W1, base, branch, remoteHas)
        ELSE LET W1 == IF ~local_exists
                       THEN BranchManager_create_local_branch(
                                W0, base, branch, "HEAD", TRUE, fault)
                       ELSE Returns(W0, None)
                 W2 == IF ~remote_exists /\ create_remote
                       THEN BranchManager_push_branch_to_remote(
                                W1, base, branch, fault)
                       ELSE W1
             IN  IF ~W1.res.ok THEN W1
                 ELSE IF ~W2.res.ok THEN W2
                 ELSE BranchManager_track_remote_branch(
                          W2, base, branch,
                          remoteHas \/ (~remote_exists /\ create_remote))

\* SpecEnsureBranch: ensure_branch_exists on a cloned repository, for a
\* branch and a remote in every combination of presence.
EnsureBranchHeads == SUBSET { BrMain, BrFeatSlash, BrTail }

InitEnsureBranch ==
    /\ LET rp == CHOOSE q \in MgrPairs : TRUE
           W == RepositoryManager_clone_repo(
                    [mem |-> EmptyStore, disk |-> MissingFile, fs |-> EmptyFs,
                     now |-> 0, log |-> <<>>, res |-> NoResult],
                    rp[1], rp[2], RemoteUrl(rp[1], rp[2]), "none")
       IN  /\ mem = [i \in Procs |-> W.mem]
           /\ disk = W.disk
           /\ fs = W.fs
    /\ now = 0
    /\ log = <<>>
    /\ last = NoLast
    /\ nops = 0
    /\ IdleProcs

EnsureBranch ==
    \E rp \in MgrPairs, branch \in BranchNames, heads \in EnsureBranchHeads,
       create_remote \in BOOLEAN, fault \in { "none", "branch", "push" } :
        LET W == BranchManager_ensure_branch_exists(
                     SeqWorld, RepositoryManager_get_repo_path(rp[1], rp[2]),
                     branch, create_remote, heads, fault)
        IN  /\ nops < MaxOps
            /\ Commit(1, W)
            /\ last' = [NoLast EXCEPT !.op = "ensure_branch_exists",
                                      !.owner = rp[1], !.repo = rp[2],
                                      !.branch = branch, !.res = W.res,
                                      !.fault = fault,
                                      !.args = [create_remote |-> create_remote]]
            /\ nops' = nops + 1
            /\ UNCHANGED now
            /\ ProcsUnchanged

NextEnsureBranch == EnsureBranch

SpecEnsureBranch == InitEnsureBranch /\ [][NextEnsureBranch]_vars

\* SpecWs: one process calling create_workspace one call after the other,
\* with directories deleted out-of-band in between.
NextWs ==
    \/ MgrCreateWorkspace
    \/ OobDelete

SpecWs == InitMgr /\ [][NextWs]_vars

\* The subprocess invocations of the latest operation
Invoked(cmd) == \E i \in DOMAIN log : log[i].cmd = cmd
InvokedOk(cmd) == \E i \in DOMAIN log : log[i].cmd = cmd /\ log[i].ok
InvokedFailed(cmd) == \E i \in DOMAIN log : log[i].cmd = cmd /\ ~log[i].ok

LastRepoPath == RepositoryManager_get_repo_path(last.owner, last.repo)
LastWorktreePath ==
    WorktreeManager_get_worktree_path(last.owner, last.repo, last.branch)

\* The metadata directory git keeps for the worktree at worktree_path
MetadataDir(F, base, worktree_path) ==
    IF GitCommonDir(F, base) = Some(base)
    THEN base \o <<"worktrees", Name(worktree_path)>>
    ELSE base \o <<".git", "worktrees", Name(worktree_path)>>

\* C6: after create_worktree has added a worktree, in a bare and in a
\* non-bare base repository alike, the relative path in the worktree's .git
\* pointer resolves from the worktree directory exactly to the worktree's
\* metadata directory (which holds HEAD), and the relative path in the
\* reverse gitdir pointer resolves from the metadata directory exactly to
\* the worktree directory.
C6_PointersRoundTrip ==
    (last.op = "create_worktree" /\ last.res.ok /\ InvokedOk("worktree add")) =>
        LET wt == LastWorktreePath
            meta == MetadataDir(fs, LastRepoPath, wt)
        IN  /\ IsFile(fs, Append(wt, ".git"))
            /\ ~fs[Append(wt, ".git")].content.abs
            /\ Resolve(wt, fs[Append(wt, ".git")].content.path) = meta
            /\ IsFile(fs, Append(meta, "HEAD"))
            /\ IsFile(fs, Append(meta, "gitdir"))
            /\ ~fs[Append(meta, "gitdir")].content.abs
            /\ Resolve(meta, fs[Append(meta, "gitdir")].content.path) = wt

\* A worktree added to a non-bare base repository.
C6_Witness ==
    /\ last.op = "create_worktree" /\ last.res.ok /\ InvokedOk("worktree add")
    /\ GitCommonDir(fs, LastRepoPath) = Some(Append(LastRepoPath, ".git"))

\* A worktree added to a bare base repository.
C6_WitnessBare ==
    /\ last.op = "create_worktree" /\ last.res.ok /\ InvokedOk("worktree add")
    /\ GitCommonDir(fs, LastRepoPath) = Some(LastRepoPath)

\* C7: a create_worktree call that directly follows a successful
\* create_worktree call for the same (owner, repo, branch) returns a
\* WorktreeInfo with the same branch and local_path, runs no
\* `git worktree add`, and leaves the stored record, created_at included,
\* as the first call wrote it.
C7_CreateWorktreeIdempotent ==
    (last.op = "create_worktree" /\ last.repeat) =>
        /\ last.res.ok
        /\ last.res.val[1].branch = last.prev.val[1].branch
        /\ last.res.val[1].local_path = last.prev.val[1].local_path
        /\ ~Invoked("worktree add")
        /\ last.before = Some(last.prev.val[1])
        /\ MetadataStorage_get_worktree(World(1), last.owner, last.repo, last.branch)
             = last.before

\* The second call comes at a later time than the first call's created_at.
C7_Witness ==
    /\ last.op = "create_worktree" /\ last.repeat /\ last.res.ok
    /\ last.res.val[1].created_at < now

\* C8: a clone_repo call that directly follows a successful clone_repo call
\* for the same (owner, repo, url) returns repository metadata with the same
\* local path and runs no clone subprocess.
C8_CloneRepoIdempotent ==
    (last.op = "clone_repo" /\ last.repeat) =>
        /\ last.res.ok
        /\ last.res.val[1].local_path = last.prev.val[1].local_path
        /\ last.res.val[1].local_path = LastRepoPath
        /\ ~Invoked("clone")

\* The second clone_repo call of a repository the first call cloned bare.
C8_Witness ==
    /\ last.op = "clone_repo" /\ last.repeat /\ last.res.ok
    /\ GitCommonDir(fs, LastRepoPath) = Some(LastRepoPath)

\* C9: after remove_worktree returns, the store holds no WorktreeInfo for
\* the key, the worktree directory does not exist, list_worktrees does not
\* include the branch, and nothing was raised, whether the directory was
\* missing, git removed it, or git failed and the force-delete ran.
C9_RemoveWorktreePostcondition ==
    last.op = "remove_worktree" =>
        /\ last.res.ok
        /\ MetadataStorage_get_worktree(World(1), last.owner, last.repo, last.branch)
             = None
        /\ ~Exists(fs, LastWorktreePath)
        /\ last.branch \notin
             { w.branch : w \in WorktreeManager_list_worktrees(
                                    World(1), last.owner, last.repo) }

\* A removal of a stored worktree whose directory existed and whose git
\* removal failed.
C9_Witness ==
    /\ last.op = "remove_worktree"
    /\ last.present
    /\ last.before # None
    /\ InvokedFailed("worktree remove")

C10_WitnessRepo ==
    /\ last.op = "get_repo"
    /\ MetadataStorage_get_repository(World(1), last.owner, last.repo) # None
    /\ ~Exists(fs, LastRepoPath)

\* C11: when a WorktreeInfo is stored, its worktree directory was deleted
\* out-of-band and git's registration of the worktree is still in place,
\* ensure_worktree (no subprocess made to fail) recreates the worktree: it
\* returns a WorktreeInfo for the same key and worktree_exists holds
\* afterwards.
C11_EnsureRecreatesMissingWorktree ==
    ( /\ last.op = "ensure_worktree"
      /\ last.fault = "none"
      /\ last.before # None
      /\ ~last.present
      /\ last.registered ) =>
        /\ last.res.ok
        /\ last.res.val[1].owner = last.owner
        /\ last.res.val[1].repo = last.repo
        /\ last.res.val[1].branch = last.branch
        /\ WorktreeManager_worktree_exists(World(1), last.owner, last.repo,
                                           last.branch)

\* The worlds create_worktree ends in when called with the arguments of the
\* latest call, on the state before it.
DelegatedCreate(withUrl) ==
    WorktreeManager_create_worktree(
        SeqWorld, last'.owner, last'.repo, last'.branch,
        IF withUrl THEN Some(RemoteUrl(last'.owner, last'.repo)) ELSE None,
        last'.fault, FALSE)

C12_WitnessDelegated ==
    /\ last.op = "ensure_worktree"
    /\ last.res.ok
    /\ InvokedOk("worktree add")

\* A subprocess of the step just taken exited non-zero.
StepFailed(cmd) == \E i \in DOMAIN log' : log'[i].cmd = cmd /\ ~log'[i].ok

StoredRepository(m, owner, repo) ==
    IF RepoKey(owner, repo) \in DOMAIN m.repositories
    THEN Some(m.repositories[RepoKey(owner, repo)]) ELSE None

StoredWorktree(m, owner, repo, branch) ==
    IF WorktreeKey(owner, repo, branch) \in DOMAIN m.worktrees
    THEN Some(m.worktrees[WorktreeKey(owner, repo, branch)]) ELSE None

\* C13: when clone_repo or create_worktree fails because a git subprocess
\* exits non-zero, the operation raises the error of the failed operation,
\* the target directory does not satisfy repo_exists / worktree_exists
\* afterwards, and the store's metadata for the failed target, in memory and
\* in the file, is what it was before the call.
C13_FailedCreateLeavesNothing ==
    [][ (nops' = nops + 1) =>
          LET o == last'.owner
              r == last'.repo
              b == last'.branch
              repoGone ==
                  /\ ~last'.res.ok
                  /\ last'.res.err = "clone failed"
                  /\ ~Exists(fs', Append(RepositoryManager_get_repo_path(o, r), "HEAD"))
                  /\ ~Exists(fs', Append(RepositoryManager_get_repo_path(o, r), ".git"))
                  /\ StoredRepository(mem'[1], o, r) = StoredRepository(mem[1], o, r)
                  /\ StoredRepository(MetadataStorage_load(disk'), o, r)
                       = StoredRepository(MetadataStorage_load(disk), o, r)
              worktreeGone ==
                  /\ ~last'.res.ok
                  /\ ~Exists(fs', Append(WorktreeManager_get_worktree_path(o, r, b),
                                         ".git"))
                  /\ StoredWorktree(mem'[1], o, r, b) = StoredWorktree(mem[1], o, r, b)
                  /\ StoredWorktree(MetadataStorage_load(disk'), o, r, b)
                       = StoredWorktree(MetadataStorage_load(disk), o, r, b)
          IN  /\ (last'.op = "clone_repo" /\ StepFailed("clone")) => repoGone
              /\ (last'.op = "create_worktree" /\ StepFailed("clone")) =>
                     repoGone /\ worktreeGone
              /\ (last'.op = "create_worktree" /\ StepFailed("worktree add")) =>
                     worktreeGone /\ last'.res.err = "worktree failed"
      ]_vars

\* create_worktree failed after git had written the worktree's .git file.
C13_Witness ==
    /\ last.op = "create_worktree"
    /\ last.fault = "add_partial"
    /\ InvokedFailed("worktree add")
    /\ ~last.res.ok

\* clone_repo failed after git had written the repository's HEAD.
C13_WitnessClone ==
    /\ last.op = "clone_repo"
    /\ last.fault = "clone_partial"
    /\ InvokedFailed("clone")
    /\ ~last.res.ok

----------------------------------------------------------------------------
(* SpecSanitize: sanitize_branch_name applied to every string over a small  *)
(* alphabet: a letter, the slash, the stripped characters, the underscore,  *)
(* a space and a non-ASCII letter.                                          *)

BranchAlphabet == { "a", "/", ".", "-", "_", " ", "é" }

RECURSIVE StringsUpTo(_)
StringsUpTo(n) ==
    IF n = 0 THEN { <<>> }
    ELSE StringsUpTo(n - 1) \cup
         { Append(cs, c) : cs \in { t \in StringsUpTo(n - 1) : Len(t) = n - 1 },
                           c \in BranchAlphabet }

InitSanitize ==
    /\ mem = [i \in Procs |-> EmptyStore]
    /\ disk = MissingFile
    /\ fs = EmptyFs
    /\ now = 0
    /\ log = <<>>
    /\ \E branch \in StringsUpTo(MaxBranchLen) :
          last = [NoLast EXCEPT !.branch = branch]
    /\ nops = 0
    /\ IdleProcs

Sanitize ==
    /\ last.op = "none"
    /\ last' = [last EXCEPT !.op = "sanitize_branch_name",
                            !.res = [ok |-> TRUE,
                                     val |-> <<sanitize_chars(last.branch)>>,
                                     err |-> ""]]
    /\ nops' = nops + 1
    /\ UNCHANGED <<mem, disk, fs, now, log>>
    /\ ProcsUnchanged

NextSanitize == Sanitize

SpecSanitize == InitSanitize /\ [][NextSanitize]_vars

\* The reference: every / becomes -, every other character outside
\* [A-Za-z0-9-_.] becomes _, and the result is cut down to the part between
\* its first and its last character that is neither . nor -.
ReferenceSanitize(S) ==
    LET mapped == [i \in DOMAIN S |->
                      IF S[i] = "/" THEN "-"
                      ELSE IF S[i] \in Alnum \cup { "-", "_", "." } THEN S[i]
                      ELSE "_"]
        kept == { i \in DOMAIN mapped : mapped[i] \notin { ".", "-" } }
    IN  IF kept = {} THEN <<>>
        ELSE LET lo == CHOOSE i \in kept : \A j \in kept : i <= j
                 hi == CHOOSE i \in kept : \A j \in kept : j <= i
             IN  SubSeq(mapped, lo, hi)

C14_WitnessEmpty ==
    /\ last.op = "sanitize_branch_name"
    /\ last.branch # <<>>
    /\ last.res.val[1] = <<>>

\* C15: create_worktree and remove_worktree for a branch whose sanitized name
\* is empty never delete the .worktrees root directory, and leave every
\* other branch's worktree directory and stored metadata as they were.
C15_EmptyNameLeavesOthersAlone ==
    [][ ( /\ nops' = nops + 1
          /\ last'.op \in { "create_worktree", "remove_worktree" }
          /\ sanitize_branch_name(last'.branch) = "" ) =>
          LET root == Append(RepositoryManager_get_repo_path(last'.owner, last'.repo),
                             ".worktrees")
              key == WorktreeKey(last'.owner, last'.repo, last'.branch)
          IN  /\ Exists(fs, root) => Exists(fs', root)
              /\ \A q \in DOMAIN fs :
                    (IsPrefix(root, q) /\ q # root) =>
                        q \in DOMAIN fs' /\ fs'[q] = fs[q]
              /\ \A k \in DOMAIN mem[1].worktrees \ {key} :
                    /\ k \in DOMAIN mem'[1].worktrees
                    /\ mem'[1].worktrees[k] = mem[1].worktrees[k]
      ]_vars

\* C19: a create_workspace call whose request for the (owner, repo) lock
\* fails ends with the error "Could not acquire lock", a kind of its own
\* that is neither a git nor a container-tool failure.
C19_LockFailureIsDistinctError ==
    (last.op = "create_workspace" /\ last.fault = "flock") =>
        /\ ~last.res.ok
        /\ last.res.err = "Could not acquire lock"

----------------------------------------------------------------------------
(* SpecId: _generate_workspace_id applied to owners, repositories and       *)
(* branches short and long; a host allows owner names of 39 characters and  *)
(* longer repository names.                                                 *)

IdOwners == { "o", "blooop", "oooooooooooooooooooooooo",
              "ooooooooooooooooooooooooooooooooooooooo" }
IdRepos == { "r", "devlaunch", "rrrrrrrrrrrrrrrrrrrrrrrr",
             "rrrrrrrrrrrrrrrrrrrrrrrrr" }
LongBranch == [i \in 1..60 |-> IF i = 8 THEN "/" ELSE "a"]
IdBranches == { BrMain, BrFeatSlash, BrDots, LongBranch }

InitId ==
    /\ mem = [i \in Procs |-> EmptyStore]
    /\ disk = MissingFile
    /\ fs = EmptyFs
    /\ now = 0
    /\ log = <<>>
    /\ \E owner \in IdOwners, repo \in IdRepos, branch \in IdBranches :
          last = [NoLast EXCEPT !.owner = owner, !.repo = repo, !.branch = branch]
    /\ nops = 0
    /\ IdleProcs

GenerateWorkspaceId ==
    /\ last.op = "none"
    /\ last' = [last EXCEPT
                   !.op = "generate_workspace_id",
                   !.res = [ok |-> TRUE,
                            val |-> <<WorktreeManager_generate_workspace_id(
                                          last.owner, last.repo, last.branch)>>,
                            err |-> ""]]
    /\ nops' = nops + 1
    /\ UNCHANGED <<mem, disk, fs, now, log>>
    /\ ProcsUnchanged

NextId == GenerateWorkspaceId

SpecId == InitId /\ [][NextId]_vars

\* C17: for every owner, repo and branch the generated workspace id is at
\* most 50 characters long, and it is owner-repo- followed by a prefix of
\* the sanitized branch name: only the branch portion is ever cut.
C17_WorkspaceIdWithinBudget ==
    last.op = "generate_workspace_id" =>
        LET id == last.res.val[1]
            sanitized == ReferenceSanitize(last.branch)
        IN  /\ Len(id) <= max_len
            /\ \E n \in 0..Len(sanitized) :
                  id = last.owner \o "-" \o last.repo \o "-" \o
                       Str(SubSeq(sanitized, 1, n))

----------------------------------------------------------------------------
(* SpecPrune: prune_stale_worktrees on stores whose worktrees were last     *)
(* used 29, 30 or 31 days ago; the clock counts days.                       *)

PruneNow == 31
PruneAges == { 29, 30, 31 }
PruneSlots ==
    { <<"a", "b-c", BrMain>>, <<"a", "b-c", BrFeatSlash>>, <<"x", "y", BrMain>> }
PruneDays == { None, Some(29), Some(31) }

\* The worktrees of slots created, the one used longest ago first.
RECURSIVE Populate(_, _, _)
Populate(W, slots, age) ==
    IF slots = {} THEN W
    ELSE LET s == CHOOSE t \in slots : \A u \in slots : age[u] <= age[t]
         IN  Populate(WorktreeManager_create_worktree(
                          [W EXCEPT !.now = PruneNow - age[s]], s[1], s[2], s[3],
                          Some(RemoteUrl(s[1], s[2])), "none", FALSE),
                      slots \ {s}, age)

InitPrune ==
    /\ \E used \in SUBSET PruneSlots : \E age \in [used -> PruneAges] :
          LET W == Populate([mem |-> EmptyStore, disk |-> MissingFile,
                             fs |-> EmptyFs, now |-> 0, log |-> <<>>,
                             res |-> NoResult], used, age)
          IN  /\ mem = [i \in Procs |-> W.mem]
              /\ disk = W.disk
              /\ fs = W.fs
    /\ now = PruneNow
    /\ log = <<>>
    /\ last = NoLast
    /\ nops = 0
    /\ IdleProcs

Prune ==
    \E days \in PruneDays, fault \in { "none", "remove" } :
        LET W == WorktreeManager_prune_stale_worktrees(SeqWorld, days, fault)
        IN  /\ nops < MaxOps
            /\ Commit(1, W)
            /\ last' = [NoLast EXCEPT !.op = "prune_stale_worktrees",
                                      !.res = W.res, !.fault = fault,
                                      !.days = days]
            /\ nops' = nops + 1
            /\ UNCHANGED now
            /\ ProcsUnchanged

NextPrune ==
    \/ Prune
    \/ OobDelete

SpecPrune == InitPrune /\ [][NextPrune]_vars

\* The stored worktrees last used before now - days (30 days by default)
StaleKeys(days) ==
    { k \in DOMAIN mem[1].worktrees :
        mem[1].worktrees[k].last_used <
            now - (IF days = None THEN 30 ELSE days[1]) }

----------------------------------------------------------------------------
(* SpecDoc: a MetadataStorage instance saves its maps and a new instance    *)
(* is constructed over the same file, or over no file.                      *)

\* What the store holds for a repository or for a worktree: nothing, a
\* record with its optional field null, or a record with the field set.
DocChoices == { "absent", "null", "set" }
DocRepos == RepoPairs
DocWorktrees == { <<"a", "b-c", BrMain>>, <<"a-b", "c", BrFeatSlash>> }

RECURSIVE AddRepositories(_, _, _)
AddRepositories(W, pairs, choice) ==
    IF pairs = {} THEN W
    ELSE LET rp == CHOOSE q \in pairs : TRUE
             r == [FreshRepository(rp[1], rp[2]) EXCEPT
                      !.last_fetched = IF choice[rp] = "set"
                                       THEN Some(MaxTime) ELSE None]
         IN  AddRepositories(
                 IF choice[rp] = "absent" THEN W
                 ELSE MetadataStorage_add_repository(W, r),
                 pairs \ {rp}, choice)

RECURSIVE AddWorktrees(_, _, _)
AddWorktrees(W, slots, choice) ==
    IF slots = {} THEN W
    ELSE LET s == CHOOSE t \in slots : TRUE
             wt == WorktreeInfo(s[1], s[2], s[3],
                       WorktreeManager_get_worktree_path(s[1], s[2], s[3]),
                       WorktreeManager_generate_workspace_id(s[1], s[2], s[3]),
                       0, MaxTime,
                       IF choice[s] = "set"
                       THEN Some(sanitize_branch_name(s[3])) ELSE None)
         IN  AddWorktrees(
                 IF choice[s] = "absent" THEN W
                 ELSE MetadataStorage_add_worktree(W, wt),
                 slots \ {s}, choice)

\* Instance 1 holds the maps; the file is not written yet; instance 2 is
\* not constructed yet.
InitDoc ==
    /\ \E rc \in [DocRepos -> DocChoices], wc \in [DocWorktrees -> DocChoices] :
          LET W == AddWorktrees(
                       AddRepositories(
                           [mem |-> EmptyStore, disk |-> MissingFile,
                            fs |-> EmptyFs, now |-> MaxTime, log |-> <<>>,
                            res |-> NoResult], DocRepos, rc),
                       DocWorktrees, wc)
          IN  mem = [i \in Procs |-> IF i = 1 THEN W.mem ELSE EmptyStore]
    /\ disk = MissingFile
    /\ fs = EmptyFs
    /\ now = MaxTime
    /\ log = <<>>
    /\ last = NoLast
    /\ nops = 0
    /\ IdleProcs

\* storage.save() by instance 1
DocSave ==
    /\ last.op = "none"
    /\ Commit(1, MetadataStorage_save(World(1)))
    /\ last' = [NoLast EXCEPT !.op = "save"]
    /\ nops' = nops + 1
    /\ UNCHANGED now
    /\ ProcsUnchanged

\* MetadataStorage(metadata_path) by a new instance: _load()
DocLoad ==
    /\ last.op \in { "none", "save" }
    /\ mem' = [mem EXCEPT ![2] = MetadataStorage_load(disk)]
    /\ last' = [NoLast EXCEPT !.op = "load", !.present = disk.exists]
    /\ nops' = nops + 1
    /\ UNCHANGED <<disk, fs, log, now>>
    /\ ProcsUnchanged

NextDoc == DocSave \/ DocLoad

SpecDoc == InitDoc /\ [][NextDoc]_vars

C20_WitnessMissingFile ==
    /\ last.op = "load"
    /\ ~last.present
    /\ mem[1].worktrees # EmptyMap
    /\ mem[2] = EmptyStore

\* The `devpod up` invocations of the latest operation
UpInvocations == { i \in DOMAIN log : log[i].cmd = "up" }

\* C16: every `up` invocation issued by create_workspace has as its source
\* the base repository directory of (owner, repo), which is the directory
\* holding `.worktrees` and is never the worktree directory, and carries
\* the chosen workspace id: owner-repo for a shared container, else the id
\* passed, else the sanitized branch name.
C16_UpMountsBaseRepo ==
    last.op = "create_workspace" =>
        \A i \in UpInvocations :
            /\ log[i].path = RepositoryManager_get_repo_path(last.owner, last.repo)
            /\ IsDir(fs, Append(log[i].path, ".worktrees"))
            /\ log[i].path # LastWorktreePath
            /\ IsPrefix(log[i].path, LastWorktreePath)
            /\ log[i].id =
                  IF last.share_container THEN last.owner \o "-" \o last.repo
                  ELSE IF last.workspace_id \notin { None, Some("") }
                  THEN last.workspace_id[1]
                  ELSE Str(ReferenceSanitize(last.branch))

\* create_workspace for a branch with a '/' has run `devpod up`.
C16_Witness ==
    /\ last.op = "create_workspace"
    /\ last.branch = BrFeatSlash
    /\ last.res.ok
    /\ UpInvocations # {}

\* create_workspace with an explicit id has run `devpod up`.
C16_WitnessExplicitId ==
    /\ last.op = "create_workspace"
    /\ last.workspace_id = Some("w")
    /\ \E i \in UpInvocations : log[i].id = "w"

\* create_workspace for a shared container has run `devpod up`.
C16_WitnessShared ==
    /\ last.op = "create_workspace"
    /\ last.share_container
    /\ UpInvocations # {}

----------------------------------------------------------------------------
(* workspace_manager.py: WorkspaceManager.create_workspace, one step at a   *)
(* time.  Spec: independent invocations of the tool, each a process that    *)
(* constructs its managers and calls create_workspace once.                 *)

\* The devpod subprocess: `up` exits zero or non-zero.
\* lock_file = lock_dir / f"{owner}-{repo}.lock"
LockFileName(owner, repo) == owner \o "-" \o repo \o ".lock"

\* The MetadataStorage instance process p works on
InstanceOf(p) == IF shared THEN 1 ELSE p

Holders(name) == IF name \in DOMAIN locks THEN locks[name] ELSE {}

\* fcntl.flock(f, LOCK_EX) returns once no other open file holds the lock.
FlockGrantedAlways(name) == TRUE
FlockGranted(name) == Holders(name) = {}

\* The finally clause: fcntl.flock(f, LOCK_UN)
UnlockOnSuccessOnly(p, name) ==
    IF ret[p].ok THEN Put(locks, name, Holders(name) \ {p}) ELSE locks
Unlock(p, name) == Put(locks, name, Holders(name) \ {p})

CallPairs == AllPairs
CallBranches == { BrMain }

Init ==
    /\ mem = [i \in Procs |-> EmptyStore]
    /\ disk = MissingFile
    /\ fs = EmptyFs
    /\ locks = EmptyMap
    /\ pc = [p \in Procs |-> "idle"]
    /\ call = [p \in Procs |-> NoCall]
    /\ ret = [p \in Procs |-> NoResult]
    /\ shared \in BOOLEAN
    /\ now = 0
    /\ log = <<>>
    /\ last = NoLast
    /\ nops = 0

SeqUnchanged == UNCHANGED <<now, last, nops, shared>>

\* The process starts: MetadataStorage.__init__ loads the metadata file,
\* and create_workspace is called with (owner, repo, branch, remote_url).
StartWith(p, pairs, branches) ==
    /\ pc[p] = "idle"
    /\ \E rp \in pairs, b \in branches :
          call' = [call EXCEPT ![p] =
                      [owner |-> rp[1], repo |-> rp[2], branch |-> b,
                       early |-> \A q \in Procs : pc[q] # "done",
                       fault |-> "none", up |-> None]]
    /\ mem' = IF shared THEN mem
              ELSE [mem EXCEPT ![p] = MetadataStorage_load(disk)]
    /\ pc' = [pc EXCEPT ![p] = "lock"]
    /\ UNCHANGED <<disk, fs, locks, ret, log>>
    /\ SeqUnchanged

Start(p) == StartWith(p, CallPairs, CallBranches)

\* open(lock_file, "w") and fcntl.flock(f, LOCK_EX)
Acquire(p) ==
    /\ pc[p] = "lock"
    /\ FlockGranted(LockFileName(call[p].owner, call[p].repo))
    /\ locks' = Put(locks, LockFileName(call[p].owner, call[p].repo),
                    Holders(LockFileName(call[p].owner, call[p].repo)) \cup {p})
    /\ pc' = [pc EXCEPT ![p] = "ensure"]
    /\ UNCHANGED <<mem, disk, fs, call, ret, log>>
    /\ SeqUnchanged

\* _create_workspace_locked: worktree_manager.ensure_worktree(...)
Ensure(p) ==
    /\ pc[p] = "ensure"
    /\ \E fault \in { "none", "add" } :
          LET W == WorktreeManager_ensure_worktree(
                       World(InstanceOf(p)), call[p].owner, call[p].repo,
                       call[p].branch,
                       Some(RemoteUrl(call[p].owner, call[p].repo)), fault, FALSE)
          IN  /\ Commit(InstanceOf(p), W)
              /\ ret' = [ret EXCEPT ![p] = W.res]
              /\ call' = [call EXCEPT ![p].fault = fault]
              /\ pc' = [pc EXCEPT ![p] = IF W.res.ok THEN "up" ELSE "unlock"]
    /\ UNCHANGED locks
    /\ SeqUnchanged

\* The id of the external workspace: the sanitized branch name by default.
WorkspaceIdOf(p) ==
    ChosenWorkspaceId(call[p].owner, call[p].repo, call[p].branch, None, FALSE)

\* run_devpod(["up", str(base_repo_path), "--id", workspace_id])
Up(p) ==
    /\ pc[p] = "up"
    /\ \E outcome \in DevpodOutcomes :
          /\ pc' = [pc EXCEPT ![p] = IF outcome = "ok" THEN "store" ELSE "unlock"]
          /\ ret' = [ret EXCEPT ![p] =
                        IF outcome = "ok" THEN @
                        ELSE [ok |-> FALSE, val |-> <<>>, err |-> "devpod failed"]]
          /\ call' = [call EXCEPT
                         ![p].fault = IF outcome = "ok" THEN @ ELSE "up",
                         ![p].up = Some([path |-> base_repo_path(ret[p].val[1]),
                                         id |-> WorkspaceIdOf(p)])]
    /\ UNCHANGED <<mem, disk, fs, locks, log>>
    /\ SeqUnchanged

\* worktree.devpod_workspace_id = workspace_id; storage.add_worktree(worktree)
StoreBack(p) ==
    /\ pc[p] = "store"
    /\ LET worktree == [ret[p].val[1] EXCEPT
                           !.devpod_workspace_id = Some(WorkspaceIdOf(p))]
           W == MetadataStorage_add_worktree(World(InstanceOf(p)), worktree)
       IN  /\ Commit(InstanceOf(p), W)
           /\ ret' = [ret EXCEPT ![p] = [ok |-> TRUE, val |-> <<worktree>>,
                                         err |-> ""]]
    /\ pc' = [pc EXCEPT ![p] = "unlock"]
    /\ UNCHANGED <<locks, call>>
    /\ SeqUnchanged

\* finally: fcntl.flock(f, LOCK_UN); the call returns or raises.
Release(p) ==
    /\ pc[p] = "unlock"
    /\ locks' = Unlock(p, LockFileName(call[p].owner, call[p].repo))
    /\ pc' = [pc EXCEPT ![p] = "done"]
    /\ UNCHANGED <<mem, disk, fs, call, ret, log>>
    /\ SeqUnchanged

Next ==
    \E p \in Procs :
        \/ Start(p)
        \/ Acquire(p)
        \/ Ensure(p)
        \/ Up(p)
        \/ StoreBack(p)
        \/ Release(p)

Spec == Init /\ [][Next]_vars

\* SpecWriters: the repository is cloned and stored already; every process
\* holds a MetadataStorage instance of its own over the one metadata file
\* and calls create_workspace for a branch of that repository.
WriterPairs == MgrPairs
WriterBranches == { BrMain, BrFeatSlash }

InitWriters ==
    /\ LET rp == CHOOSE q \in WriterPairs : TRUE
           W == RepositoryManager_clone_repo(
                    [mem |-> EmptyStore, disk |-> MissingFile, fs |-> EmptyFs,
                     now |-> 0, log |-> <<>>, res |-> NoResult],
                    rp[1], rp[2], RemoteUrl(rp[1], rp[2]), "none")
       IN  /\ mem = [i \in Procs |-> W.mem]
           /\ disk = W.disk
           /\ fs = W.fs
    /\ locks = EmptyMap
    /\ pc = [p \in Procs |-> "idle"]
    /\ call = [p \in Procs |-> NoCall]
    /\ ret = [p \in Procs |-> NoResult]
    /\ shared = FALSE
    /\ now = 0
    /\ log = <<>>
    /\ last = NoLast
    /\ nops = 0

StartWriter(p) == StartWith(p, WriterPairs, WriterBranches)

NextWriters ==
    \E p \in Procs :
        \/ StartWriter(p)
        \/ Acquire(p)
        \/ Ensure(p)
        \/ Up(p)
        \/ StoreBack(p)
        \/ Release(p)

SpecWriters == InitWriters /\ [][NextWriters]_vars

----------------------------------------------------------------------------
(* Properties of concurrent create_workspace calls (Spec)                   *)

\* The protected section: from the lock's acquisition to its release.
Protected == { "ensure", "up", "store", "unlock" }

SamePair(p, q) == call[p].owner = call[q].owner /\ call[p].repo = call[q].repo
SameCall(p, q) == SamePair(p, q) /\ call[p].branch = call[q].branch
LockOf(p) == LockFileName(call[p].owner, call[p].repo)

WorktreeAdds == { i \in DOMAIN log : log[i].cmd = "worktree add" }

Equivalent(v, w) ==
    /\ v.owner = w.owner
    /\ v.repo = w.repo
    /\ v.branch = w.branch
    /\ v.local_path = w.local_path
    /\ v.workspace_id = w.workspace_id

\* Every process called create_workspace for the same (owner, repo, branch),
\* each over a store constructed before any call completed (or one shared
\* store), no subprocess was made to fail, and every call has finished.
ConcurrentSameCalls ==
    /\ \A p \in Procs : pc[p] = "done" /\ call[p].early /\ call[p].fault = "none"
    /\ \A p, q \in Procs : SameCall(p, q)

\* C1: N concurrent create_workspace calls for the same (owner, repo,
\* branch), by independent invocations with their own stores over the same
\* metadata file or by callers sharing one store, result in exactly one `git
\* worktree add` and N successful returns of equivalent WorktreeInfo.
C1_ConcurrentCreateOnce ==
    ConcurrentSameCalls =>
        /\ \A p \in Procs : ret[p].ok
        /\ Cardinality(WorktreeAdds) = 1
        /\ \A p, q \in Procs :
              ret[p].ok /\ ret[q].ok => Equivalent(ret[p].val[1], ret[q].val[1])

\* The half of C1 that the code keeps: callers sharing one store object.
C1_SharedStoreCreateOnce == shared => C1_ConcurrentCreateOnce

C1_SharedStoreWitness ==
    shared /\ ConcurrentSameCalls /\ \A p \in Procs : ret[p].ok

\* C2: at every moment at most one create_workspace call per (owner, repo)
\* is inside the protected section (ensure_worktree, the external `up`, the
\* store-back), and a call inside it holds the lock.
C2_OneCallPerRepoInProtectedSection ==
    /\ \A p \in Procs : pc[p] \in Protected => p \in Holders(LockOf(p))
    /\ \A p, q \in Procs :
          p # q /\ pc[p] \in Protected /\ pc[q] \in Protected => ~SamePair(p, q)

C2_Witness ==
    \E p, q \in Procs :
        /\ p # q
        /\ pc[p] = "store"
        /\ pc[q] = "lock"
        /\ SamePair(p, q)

\* C3: once a create_workspace call has returned or raised, it does not hold
\* the lock, and a call waiting for the lock while no other call is inside
\* the protected section is granted it.
C3_LockReleasedOnEveryExit ==
    /\ \A p \in Procs :
          pc[p] = "done" => \A name \in DOMAIN locks : p \notin locks[name]
    /\ \A p \in Procs :
          (pc[p] = "lock" /\ \A q \in Procs \ {p} : pc[q] \notin Protected)
              => FlockGranted(LockOf(p))

C3_Witness ==
    \E p, q \in Procs :
        /\ p # q
        /\ pc[q] = "done"
        /\ ~ret[q].ok
        /\ SamePair(p, q)
        /\ pc[p] = "ensure"
        /\ p \in Holders(LockOf(p))

\* C4: create_workspace calls for different (owner, repo) pairs never
\* contend: a call waiting for its lock is never kept out by a call for
\* another pair.
C4_DifferentReposNeverContend ==
    \A p, q \in Procs :
        (pc[p] = "lock" /\ pc[q] \in Protected /\ ~SamePair(p, q))
            => FlockGranted(LockOf(p))

\* C21: when processes holding each its own MetadataStorage instance over
\* the same file have run create_workspace for different branches of one
\* repository under the lock, all calls succeeding, the metadata file holds
\* the WorktreeInfo of every one of them and the repository's worktrees
\* list holds every one of their branches.
C21_SerializedWritersLoseNoUpdate ==
    \A p, q \in Procs :
        ( /\ p # q
          /\ pc[p] = "done" /\ pc[q] = "done"
          /\ ret[p].ok /\ ret[q].ok
          /\ SamePair(p, q)
          /\ call[p].branch # call[q].branch ) =>
            /\ \A r \in { p, q } :
                  WorktreeKey(call[r].owner, call[r].repo, call[r].branch)
                      \in DOMAIN disk.worktrees
            /\ RepoKey(call[p].owner, call[p].repo) \in DOMAIN disk.repositories
            /\ { call[p].branch, call[q].branch } \subseteq
                  Range(disk.repositories[
                            RepoKey(call[p].owner, call[p].repo)].worktrees)

\* C22: in every state reached through clone_repo, create_worktree,
\* remove_worktree and remove_repository, with directories deleted
\* out-of-band in between, every stored WorktreeInfo's (owner, repo) has a
\* stored BaseRepository, and every stored BaseRepository's worktrees list
\* holds exactly the branches with a stored WorktreeInfo for it.
C22_StoreReferentialIntegrity ==
    /\ \A w \in Range(mem[1].worktrees) :
          RepoKey(w.owner, w.repo) \in DOMAIN mem[1].repositories
    /\ \A r \in Range(mem[1].repositories) :
          Range(r.worktrees) = StoredBranches(1, r.owner, r.repo)

\* C23: when a repository directory, respectively a worktree directory,
\* exists but the store has no record for it, clone_repo (reached through
\* ensure_repo) respectively create_worktree, run with no subprocess made
\* to fail, returns successfully and the directory is still in place.
C23_DirectoryWithoutMetadataIsHealed ==
    [][ /\ ( ( /\ nops' = nops + 1
               /\ last'.op = "clone_repo"
               /\ last'.fault = "none"
               /\ Exists(fs, RepositoryManager_get_repo_path(last'.owner, last'.repo))
               /\ MetadataStorage_get_repository(World(1), last'.owner, last'.repo) = None )
             => ( /\ last'.res.ok
                  /\ Exists(fs', RepositoryManager_get_repo_path(last'.owner, last'.repo)) ) )
        /\ ( ( /\ nops' = nops + 1
               /\ last'.op = "create_worktree"
               /\ last'.fault = "none"
               /\ MetadataStorage_get_repository(World(1), last'.owner, last'.repo) # None
               /\ last'.present
               /\ last'.before = None )
             => ( /\ last'.res.ok
                  /\ Exists(fs', WorktreeManager_get_worktree_path(
                                     last'.owner, last'.repo, last'.branch)) ) )
      ]_vars

\* C24: create_worktree chooses its git command by the state of the branch:
\* when refs/heads/<branch> exists locally the remote is not queried and
\* the worktree is added for the existing branch; when it is absent the
\* remote is queried, and a remote that has the branch gives a fetch of
\* that ref followed by an add without -b, a remote that has not gives no
\* fetch and an add with -b.
Entries(cmd) == { i \in DOMAIN log : log[i].cmd = cmd }

C24_ThreeWayBranchCheck ==
    last.op = "create_worktree" =>
        \A i \in Entries("show-ref") :
            /\ Cardinality(Entries("worktree add")) = 1
            /\ \A a \in Entries("worktree add") :
                  /\ i < a
                  /\ log[a].branch = last.branch
                  /\ log[i].ok =>
                        /\ Entries("ls-remote") = {}
                        /\ Entries("fetch origin") = {}
                        /\ ~log[a].newBranch
                  /\ ~log[i].ok =>
                        /\ Cardinality(Entries("ls-remote")) = 1
                        /\ \A q \in Entries("ls-remote") :
                              /\ i < q /\ q < a
                              /\ log[q].remoteHas =>
                                    /\ ~log[a].newBranch
                                    /\ \E f \in Entries("fetch origin") :
                                          /\ q < f /\ f < a
                                          /\ log[f].branch = last.branch
                              /\ ~log[q].remoteHas =>
                                    /\ log[a].newBranch
                                    /\ Entries("fetch origin") = {}

\* C25: ensure_branch_exists follows the table on (local exists, remote
\* exists): both present runs no further command; local absent and remote
\* present creates the local branch from <remote>/<branch> and sets the
\* upstream; both absent creates the local branch from HEAD, pushes exactly
\* when create_remote is true, and sets the upstream; local present and
\* remote absent sets the upstream only and never pushes.
C25_EnsureBranchDecisionTable ==
    last.op = "ensure_branch_exists" =>
        \A i \in Entries("show-ref"), q \in Entries("ls-remote") :
            LET local == log[i].ok
                remote == log[q].remoteHas
                creates == Entries("branch")
                pushes == Entries("push")
                tracks == Entries("set-upstream")
            IN  /\ (local /\ remote) =>
                      creates = {} /\ pushes = {} /\ tracks = {}
                /\ (~local /\ remote) =>
                      /\ Cardinality(creates) = 1
                      /\ \A c \in creates : log[c].start = Upstream(last.branch)
                      /\ pushes = {}
                      /\ last.res.ok => Cardinality(tracks) = 1
                /\ (~local /\ ~remote) =>
                      /\ Cardinality(creates) = 1
                      /\ \A c \in creates : log[c].start = "HEAD"
                      /\ (\A c \in creates : log[c].ok) =>
                            (pushes # {} <=> last.args.create_remote)
                      /\ last.res.ok => Cardinality(tracks) = 1
                /\ (local /\ ~remote) =>
                      /\ creates = {}
                      /\ pushes = {}
                      /\ Cardinality(tracks) = 1

\* The devpod_workspace_id stored for the worktree of the latest operation
LastStoredDevpodId ==
    LET w == MetadataStorage_get_worktree(World(1), last.owner, last.repo, last.branch)
    IN  IF w = None THEN None ELSE w[1].devpod_workspace_id

ListFound == \E i \in Entries("list") : log[i].found

\* C26 as stated: a workspace_id passed to create_workspace is the id given
\* to `devpod up`, also in shared-container mode.
C26_ExplicitIdTakesPrecedence ==
    ( /\ last.op = "create_workspace"
      /\ last.res.ok
      /\ last.workspace_id \notin { None, Some("") } ) =>
        /\ UpInvocations # {}
        /\ \A i \in UpInvocations : log[i].id = last.workspace_id[1]

\* C26, amended: a successful create_workspace in shared-container mode
\* uses the id owner-repo whatever workspace_id was passed, runs no
\* `devpod up` when the listing shows that id, and records it; otherwise a
\* non-empty workspace_id passed is the id given to `up`; otherwise the
\* sanitized branch name is; the id given to `up` is the id recorded.
C26_WorkspaceIdPrecedence ==
    ( last.op = "create_workspace" /\ last.res.ok ) =>
        LET shared_id == last.owner \o "-" \o last.repo
        IN  /\ last.share_container =>
                  /\ Entries("list") # {}
                  /\ ListFound => UpInvocations = {}
                  /\ ~ListFound => UpInvocations # {}
                  /\ \A i \in UpInvocations : log[i].id = shared_id
                  /\ LastStoredDevpodId = Some(shared_id)
            /\ ( ~last.share_container /\ last.workspace_id \notin { None, Some("") } ) =>
                  /\ UpInvocations # {}
                  /\ \A i \in UpInvocations : log[i].id = last.workspace_id[1]
                  /\ LastStoredDevpodId = last.workspace_id
            /\ ( ~last.share_container /\ last.workspace_id \in { None, Some("") } ) =>
                  /\ UpInvocations # {}
                  /\ \A i \in UpInvocations :
                        log[i].id = sanitize_branch_name(last.branch)
                  /\ LastStoredDevpodId = Some(sanitize_branch_name(last.branch))

\* create_workspace in shared-container mode with a workspace_id passed has
\* run `devpod up`.
C26_Witness ==
    /\ last.op = "create_workspace"
    /\ last.res.ok
    /\ last.share_container
    /\ last.workspace_id = Some("w")
    /\ UpInvocations # {}

\* create_workspace in shared-container mode found the container listed.
C26_WitnessReuse ==
    /\ last.op = "create_workspace"
    /\ last.res.ok
    /\ last.share_container
    /\ ListFound

\* The devpod_workspace_id a store holds for a worktree, None when it holds
\* no entry or no id.
DevpodIdIn(store, owner, repo, branch) ==
    LET k == WorktreeKey(owner, repo, branch)
    IN  IF k \in DOMAIN store.worktrees
        THEN store.worktrees[k].devpod_workspace_id ELSE None

\* The `devpod up` and `git worktree add` invocations of the step
UpInvocationsOfStep == { j \in DOMAIN log' : log'[j].cmd = "up" }
WorktreeAddsOfStep == { j \in DOMAIN log' : log'[j].cmd = "worktree add" }

\* C27 as stated: a create_workspace whose `devpod up` exits non-zero
\* raises, holds no lock afterwards, leaves the stored devpod_workspace_id
\* of the worktree as it was before the call and keeps the worktree; one
\* whose `up` exits zero returns with the stored devpod_workspace_id equal
\* to the id passed to `up`.
C27_DevpodIdUnchangedOnFailure ==
    [][ ( nops' = nops + 1 /\ last'.op = "create_workspace" ) =>
          \A i \in UpInvocationsOfStep :
              /\ ~log'[i].ok =>
                    /\ ~last'.res.ok
                    /\ locks' = EmptyMap
                    /\ DevpodIdIn(mem'[1], last'.owner, last'.repo, last'.branch)
                         = DevpodIdIn(mem[1], last'.owner, last'.repo, last'.branch)
                    /\ WorktreeKey(last'.owner, last'.repo, last'.branch)
                         \in DOMAIN mem'[1].worktrees
                    /\ Exists(fs', WorktreeManager_get_worktree_path(
                                       last'.owner, last'.repo, last'.branch))
              /\ log'[i].ok =>
                    /\ last'.res.ok
                    /\ DevpodIdIn(mem'[1], last'.owner, last'.repo, last'.branch)
                         = Some(log'[i].id)
      ]_vars

\* C27, amended: a create_workspace whose `devpod up` exits non-zero
\* raises, holds no lock afterwards and keeps the worktree, its entry and
\* its directory; the stored devpod_workspace_id is the one of before the
\* call when the call reused the worktree, and none when the call created
\* the worktree anew (a recreated worktree loses the id of an earlier
\* call); it is never set by the failed call.  A create_workspace whose
\* `up` exits zero returns with the stored devpod_workspace_id equal to the
\* id passed to `up`.
C27_DevpodIdRecordedOnlyOnSuccess ==
    [][ ( nops' = nops + 1 /\ last'.op = "create_workspace" ) =>
          \A i \in UpInvocationsOfStep :
              /\ ~log'[i].ok =>
                    /\ ~last'.res.ok
                    /\ locks' = EmptyMap
                    /\ DevpodIdIn(mem'[1], last'.owner, last'.repo, last'.branch)
                         = IF WorktreeAddsOfStep = {}
                           THEN DevpodIdIn(mem[1], last'.owner, last'.repo,
                                           last'.branch)
                           ELSE None
                    /\ DevpodIdIn(MetadataStorage_load(disk'), last'.owner, last'.repo, last'.branch)
                         = DevpodIdIn(mem'[1], last'.owner, last'.repo, last'.branch)
                    /\ WorktreeKey(last'.owner, last'.repo, last'.branch)
                         \in DOMAIN mem'[1].worktrees
                    /\ Exists(fs', WorktreeManager_get_worktree_path(
                                       last'.owner, last'.repo, last'.branch))
              /\ log'[i].ok =>
                    /\ last'.res.ok
                    /\ DevpodIdIn(mem'[1], last'.owner, last'.repo, last'.branch)
                         = Some(log'[i].id)
      ]_vars

\* `devpod up` has failed in a create_workspace that created the worktree.
C27_Witness ==
    /\ last.op = "create_workspace"
    /\ ~last.res.ok
    /\ last.before = None
    /\ \E i \in UpInvocations : ~log[i].ok
    /\ DevpodIdIn(mem[1], last.owner, last.repo, last.branch) = None
    /\ last.workspace_id = None

\* `devpod up` has failed for a worktree that holds an id of an earlier call.
C27_WitnessKeepsEarlierId ==
    /\ last.op = "create_workspace"
    /\ ~last.res.ok
    /\ \E i \in UpInvocations : ~log[i].ok
    /\ DevpodIdIn(mem[1], last.owner, last.repo, last.branch) # None

\* `devpod up` has failed in a call that recreated a worktree whose entry
\* held the id of an earlier call.
C27_WitnessRecreated ==
    /\ last.op = "create_workspace"
    /\ ~last.res.ok
    /\ \E i \in UpInvocations : ~log[i].ok
    /\ last.before # None
    /\ DevpodIdIn(mem[1], last.owner, last.repo, last.branch) = None

\* The invocations of the step
EntriesOfStep(cmd) == { j \in DOMAIN log' : log'[j].cmd = cmd }

\* C28: delete_workspace always returns to its caller.  With remove_worktree
\* it runs `devpod delete` once, before any git command of the removal, and
\* removes through remove_worktree one worktree whose devpod_workspace_id
\* or workspace_id is the id (entry and directory, unless the removal
\* itself failed), leaving every other entry as it was; without
\* remove_worktree the store, the metadata file and the file system are
\* left unchanged.
C28_DeleteThenRemoveWorktree ==
    [][ ( nops' = nops + 1 /\ last'.op = "delete_workspace" ) =>
          LET id == last'.workspace_id[1]
              matches == { w \in Range(mem[1].worktrees) :
                             \/ w.devpod_workspace_id = Some(id)
                             \/ w.workspace_id = id }
              Key(w) == WorktreeKey(w.owner, w.repo, w.branch)
          IN  /\ last'.res.ok
              /\ Cardinality(EntriesOfStep("delete")) = 1
              /\ \A d \in EntriesOfStep("delete") :
                    /\ log'[d].id = id
                    /\ \A r \in EntriesOfStep("worktree remove")
                              \cup EntriesOfStep("worktree prune") : d < r
              /\ ~last'.args.remove_worktree =>
                    /\ mem' = mem /\ disk' = disk /\ fs' = fs
                    /\ EntriesOfStep("worktree remove") = {}
              /\ ( last'.args.remove_worktree /\ matches = {} ) =>
                    mem' = mem /\ disk' = disk /\ fs' = fs
              /\ ( last'.args.remove_worktree /\ matches # {} ) =>
                    \E w \in matches :
                        /\ last'.fault # "rmtree" =>
                              /\ Key(w) \notin DOMAIN mem'[1].worktrees
                              /\ Key(w) \notin DOMAIN disk'.worktrees
                              /\ ~Exists(fs', w.local_path)
                        /\ \A k \in DOMAIN mem[1].worktrees \ { Key(w) } :
                              /\ k \in DOMAIN mem'[1].worktrees
                              /\ mem'[1].worktrees[k] = mem[1].worktrees[k]
      ]_vars

\* delete_workspace has removed the worktree of the workspace after a
\* `devpod delete` that exited zero.
C28_Witness ==
    /\ last.op = "delete_workspace"
    /\ last.args.remove_worktree
    /\ last.args.worktree # None
    /\ last.fault = "none"
    /\ \E d \in Entries("delete"), r \in Entries("worktree remove") :
          log[d].ok /\ log[r].ok /\ d < r
    /\ mem[1].worktrees = EmptyMap

\* the removal has failed and delete_workspace has returned
C28_WitnessRemovalFailed ==
    /\ last.op = "delete_workspace"
    /\ last.args.remove_worktree
    /\ last.fault = "rmtree"
    /\ last.res.ok
    /\ \E r \in Entries("worktree remove") : ~log[r].ok
    /\ mem[1].worktrees # EmptyMap

\* delete_workspace without remove_worktree has run for a stored worktree
C28_WitnessKeep ==
    /\ last.op = "delete_workspace"
    /\ ~last.args.remove_worktree
    /\ \E w \in Range(mem[1].worktrees) : w.devpod_workspace_id = last.workspace_id

\* C29: sync_workspaces sets devpod_workspace_id to none on exactly the
\* stored worktrees whose devpod_workspace_id is set and is not among the
\* ids `devpod list` printed (none when it failed); every other entry and
\* every other field is as before, the keys of the store are as before,
\* the metadata file holds the store when an entry was cleared and is
\* untouched otherwise, and no directory changes.
C29_SyncClearsExactlyUnlisted ==
    [][ ( nops' = nops + 1 /\ last'.op = "sync_workspaces" ) =>
          /\ last'.res.ok
          /\ Cardinality(EntriesOfStep("list")) = 1
          /\ \A l \in EntriesOfStep("list") :
                LET gone == { k \in DOMAIN mem[1].worktrees :
                                /\ mem[1].worktrees[k].devpod_workspace_id # None
                                /\ mem[1].worktrees[k].devpod_workspace_id[1]
                                     \notin log'[l].ids }
                IN  /\ DOMAIN mem'[1].worktrees = DOMAIN mem[1].worktrees
                    /\ \A k \in DOMAIN mem[1].worktrees :
                          mem'[1].worktrees[k] =
                              IF k \in gone
                              THEN [mem[1].worktrees[k] EXCEPT
                                       !.devpod_workspace_id = None]
                              ELSE mem[1].worktrees[k]
                    /\ gone # {} => MetadataStorage_load(disk').worktrees
                                       = mem'[1].worktrees
                    /\ gone = {} => disk' = disk
          /\ fs' = fs
      ]_vars

\* sync_workspaces has cleared the id of one worktree and kept the id of
\* another, which the listing shows.
C29_Witness ==
    /\ last.op = "sync_workspaces"
    /\ \E l \in Entries("list") : log[l].ok /\ log[l].ids = { "m" }
    /\ \E w \in Range(mem[1].worktrees) : w.devpod_workspace_id = Some("m")
    /\ \E w \in Range(mem[1].worktrees) :
          w.branch = BrFeatSlash /\ w.devpod_workspace_id = None

\* sync_workspaces has run with `devpod list` failing.
C29_WitnessListFailed ==
    /\ last.op = "sync_workspaces"
    /\ \E l \in Entries("list") : ~log[l].ok
    /\ \E w \in Range(mem[1].worktrees) : w.devpod_workspace_id = None

C30_WitnessListFailed ==
    /\ last.op = "sync_with_git"
    /\ \E l \in Entries("worktree list") : ~log[l].ok
    /\ DOMAIN mem[1].worktrees # {}

\* sync_with_git has run for a repository whose directory is gone
C30_WitnessNoDirectory ==
    /\ last.op = "sync_with_git"
    /\ Entries("worktree list") = {}
    /\ \E w \in Range(mem[1].worktrees) : w.owner = last.owner /\ w.repo = last.repo

----------------------------------------------------------------------------
(* SpecEnsureRepo: ensure_repo calls on one manager while the clock         *)
(* advances and the repository directory may be deleted in between         *)

\* A stored repository whose document carries no last_fetched
\* (models.py: last_fetched is Optional, from_dict leaves a null alone).
WithLastFetched(store, last_fetched) ==
    [store EXCEPT !.repositories =
        [k \in DOMAIN @ |-> [@[k] EXCEPT !.last_fetched = last_fetched]]]

InitEnsureRepo ==
    /\ \E legacy \in SUBSET MgrPairs, last_fetched \in { None, Some(0) } :
          /\ mem = [i \in Procs |-> WithLastFetched(LegacyStore(legacy), last_fetched)]
          /\ disk = ToDocument(WithLastFetched(LegacyStore(legacy), last_fetched))
          /\ fs = LegacyFs(EmptyFs, legacy)
    /\ now = 0
    /\ log = <<>>
    /\ last = NoLast
    /\ nops = 0
    /\ IdleProcs

EnsureRepo ==
    \E rp \in MgrPairs, auto_fetch \in BOOLEAN, fault \in { "none", "fetch", "clone" } :
      \E W \in { RepositoryManager_ensure_repo(
                     SeqWorld, rp[1], rp[2], RemoteUrl(rp[1], rp[2]),
                     auto_fetch, fault) } :
        /\ nops < MaxOps
        /\ Commit(1, W)
        /\ last' = [NoLast EXCEPT !.op = "ensure_repo", !.owner = rp[1],
                                  !.repo = rp[2], !.res = W.res,
                                  !.fault = fault, !.args = <<auto_fetch>>]
        /\ nops' = nops + 1
        /\ UNCHANGED now
        /\ ProcsUnchanged

NextEnsureRepo ==
    \/ EnsureRepo
    \/ OobDelete
    \/ Tick

SpecEnsureRepo == InitEnsureRepo /\ [][NextEnsureRepo]_vars

\* C31: an ensure_repo call on a repository that exists locally with stored
\* metadata runs a fetch exactly when auto_fetch is true and the repository
\* was never fetched or more than fetch_interval has elapsed since
\* last_fetched; it returns the stored metadata whether the fetch succeeds
\* or fails, and the store changes only by a successful fetch setting
\* last_fetched to the time of the call; on a repository that does not
\* exist locally the call runs clone_repo's clone and no fetch.
StoredRepo(store, owner, repo) ==
    IF RepoKey(owner, repo) \in DOMAIN store.repositories
    THEN Some(store.repositories[RepoKey(owner, repo)]) ELSE None

C31_LazyFetchGate ==
    [][ (nops' = nops + 1 /\ last'.op = "ensure_repo") =>
          LET owner == last'.owner
              repo == last'.repo
              stored == StoredRepo(mem[1], owner, repo)
              local == RepositoryManager_repo_exists(World(1), owner, repo)
              fetches == { i \in DOMAIN log' : log'[i].cmd = "fetch" }
              clones == { i \in DOMAIN log' : log'[i].cmd = "clone" }
              due == \/ stored[1].last_fetched = None
                     \/ now - stored[1].last_fetched[1] > fetch_interval
          IN  /\ (local /\ stored # None) =>
                    /\ clones = {}
                    /\ (fetches # {}) <=> (last'.args[1] /\ due)
                    /\ Cardinality(fetches) <= 1
                    /\ last'.res.ok
                    /\ last'.res.val = StoredRepo(mem'[1], owner, repo)
                    /\ (\E i \in fetches : log'[i].ok) =>
                          /\ mem'[1] = [mem[1] EXCEPT
                                 !.repositories[RepoKey(owner, repo)].last_fetched =
                                     Some(now)]
                          /\ disk' = ToDocument(mem'[1])
                    /\ (\A i \in fetches : ~log'[i].ok) =>
                          /\ mem' = mem
                          /\ disk' = disk
              /\ ~local =>
                    /\ Cardinality(clones) = 1
                    /\ fetches = {}
                    /\ last'.res.ok <=> \A i \in clones : log'[i].ok ]_vars

\* An ensure_repo call that found the fetch due and saw it fail.
C31_Witness ==
    /\ last.op = "ensure_repo"
    /\ last.res.ok
    /\ \E i \in DOMAIN log : log[i].cmd = "fetch" /\ ~log[i].ok

\* An ensure_repo call with auto_fetch on a repository fetched within the
\* interval: no fetch ran.
C31_WitnessFresh ==
    /\ last.op = "ensure_repo"
    /\ last.args = <<TRUE>>
    /\ last.res.ok
    /\ log = <<>>
    /\ now > 0

\* An ensure_repo call whose fetch succeeded after the interval elapsed.
C31_WitnessElapsed ==
    /\ last.op = "ensure_repo"
    /\ now > fetch_interval
    /\ \E i \in DOMAIN log : log[i].cmd = "fetch" /\ log[i].ok
    /\ last.res.ok /\ last.res.val[1].last_fetched = Some(now)

\* An ensure_repo call that cloned.
C31_WitnessClone ==
    /\ last.op = "ensure_repo"
    /\ last.res.ok
    /\ \E i \in DOMAIN log : log[i].cmd = "clone" /\ log[i].ok

----------------------------------------------------------------------------
(* SpecDefaultBranch: _get_default_branch on the states of a clone          *)

NameRelease == <<"r","e","l","e","a","s","e">>
NameMaint == <<"m","a","i","n","t">>

\* The branches HEAD can point to: every valid branch name up to the bound,
\* and release.
HeadNames ==
    { b \in StringsUpTo(MaxBranchLen) : GitValidBranchName(b) } \cup { NameRelease }

RemoteListings == SUBSET { NameMain, NameMaster, NameMaint, BrFeatSlash }

InitDefaultBranch ==
    /\ mem = [i \in Procs |-> EmptyStore]
    /\ disk = MissingFile
    /\ fs = EmptyFs
    /\ now = 0
    /\ log = <<>>
    /\ \E head \in { None } \cup { Some(b) : b \in HeadNames },
          remote_head \in { None, Some(NameMain), Some(BrFeatSlash) },
          listing \in { None } \cup { Some(l) : l \in RemoteListings } :
          /\ head # None => (remote_head = None /\ listing = Some({}))
          /\ last = [NoLast EXCEPT !.args = <<head, remote_head, listing>>]
    /\ nops = 0
    /\ IdleProcs

GetDefaultBranch ==
    /\ last.op = "none"
    /\ last' = [last EXCEPT
                   !.op = "_get_default_branch",
                   !.res = [ok |-> TRUE,
                            val |-> <<GetDefaultBranchFrom(
                                          last.args[1], last.args[2], last.args[3])>>,
                            err |-> ""]]
    /\ nops' = nops + 1
    /\ UNCHANGED <<mem, disk, fs, now, log>>
    /\ ProcsUnchanged

NextDefaultBranch == GetDefaultBranch

SpecDefaultBranch == InitDefaultBranch /\ [][NextDefaultBranch]_vars

\* C32: the default branch detected is the branch HEAD points to, for every
\* branch name; when HEAD cannot be read it is the branch of the remote
\* HEAD; when that cannot be read either it is main if the remote branch
\* listing has main, else master if the listing has master, else main.
C32_DefaultBranchDetection ==
    last.op = "_get_default_branch" =>
        LET head == last.args[1]
            remote_head == last.args[2]
            listing == last.args[3]
            branch == last.res.val[1]
        IN  /\ head # None => branch = Str(head[1])
            /\ (head = None /\ remote_head # None) => branch = Str(remote_head[1])
            /\ (head = None /\ remote_head = None) =>
                  branch = IF listing # None /\ NameMain \in listing[1] THEN "main"
                           ELSE IF listing # None /\ NameMaster \in listing[1]
                           THEN "master"
                           ELSE "main"

----------------------------------------------------------------------------
(* SpecExists: the existence checks of BranchManager under every outcome   *)
(* of their subprocess                                                     *)

\* subprocess.run(["git", ...], cwd=base): OSError when the executable or
\* the working directory is missing, else the exit status of git, which is
\* non-zero outside a repository and whenever git itself fails.
SubprocessRun(F, base, fault) ==
    IF ~IsDir(F, base) \/ fault = "oserror" THEN "OSError"
    ELSE IF GitCommonDir(F, base) = None \/ fault = "exit" THEN "nonzero"
    ELSE "zero"

\* The lines of git ls-remote --heads: <hash> TAB refs/heads/<branch>
LsRemoteLines(heads) ==
    { <<"r","e","f","s","/","h","e","a","d","s","/">> \o b : b \in heads }

\* branch_ref[11:] of the lines that start with refs/heads/
ParsedHeads(lines) ==
    { SubSeq(l, 12, Len(l)) :
        l \in { k \in lines :
                  /\ Len(k) >= 11
                  /\ SubSeq(k, 1, 11) = <<"r","e","f","s","/","h","e","a","d","s","/">> } }

\* local_branch_exists: check=False, except Exception
LocalBranchExistsCall(W, base, branch, fault) ==
    LET run == SubprocessRun(W.fs, base, fault)
    IN  IF run = "OSError" THEN Returns(W, FALSE)
        ELSE Returns(W, run = "zero" /\ BranchManager_local_branch_exists(
                                            W.fs, base, branch))

\* remote_branch_exists: check=True, except subprocess.CalledProcessError
RemoteBranchExistsCall(W, base, heads, branch, fault) ==
    LET run == SubprocessRun(W.fs, base, fault)
    IN  IF run = "OSError" THEN Raises(W, "OSError")
        ELSE IF run = "nonzero" THEN Returns(W, FALSE)
        ELSE Returns(W, BranchManager_remote_branch_exists(W.fs, base, heads, branch))

\* get_remote_branches: check=True, except subprocess.CalledProcessError
BranchManager_get_remote_branches(W, base, heads, fault) ==
    LET run == SubprocessRun(W.fs, base, fault)
    IN  IF run = "OSError" THEN Raises(W, "OSError")
        ELSE IF run = "nonzero" THEN Returns(W, {})
        ELSE Returns(W, ParsedHeads(LsRemoteLines(heads)))

ExistsFaults == { "none", "exit", "oserror" }

ExistsDone(op, rp, branch, heads, fault, W) ==
    /\ nops < MaxOps
    /\ Commit(1, W)
    /\ last' = [NoLast EXCEPT !.op = op, !.owner = rp[1], !.repo = rp[2],
                              !.branch = branch, !.res = W.res, !.fault = fault,
                              !.present = IsDir(fs, RepositoryManager_get_repo_path(
                                                        rp[1], rp[2])),
                              !.args = <<heads>>]
    /\ nops' = nops + 1
    /\ UNCHANGED now
    /\ ProcsUnchanged

LocalBranchExists ==
    \E rp \in MgrPairs, branch \in BranchNames, fault \in ExistsFaults :
        ExistsDone("local_branch_exists", rp, branch, {}, fault,
                   LocalBranchExistsCall(
                       SeqWorld, RepositoryManager_get_repo_path(rp[1], rp[2]),
                       branch, fault))

RemoteBranchExists ==
    \E rp \in MgrPairs, branch \in BranchNames, heads \in EnsureBranchHeads,
       fault \in ExistsFaults :
        ExistsDone("remote_branch_exists", rp, branch, heads, fault,
                   RemoteBranchExistsCall(
                       SeqWorld, RepositoryManager_get_repo_path(rp[1], rp[2]),
                       heads, branch, fault))

GetRemoteBranches ==
    \E rp \in MgrPairs, heads \in EnsureBranchHeads, fault \in ExistsFaults :
        ExistsDone("get_remote_branches", rp, <<>>, heads, fault,
                   BranchManager_get_remote_branches(
                       SeqWorld, RepositoryManager_get_repo_path(rp[1], rp[2]),
                       heads, fault))

NextExists ==
    \/ LocalBranchExists
    \/ RemoteBranchExists
    \/ GetRemoteBranches
    \/ OobDelete

SpecExists == InitEnsureBranch /\ [][NextExists]_vars

\* C33: local_branch_exists, remote_branch_exists and get_remote_branches
\* never raise; when their subprocess fails (non-zero exit, or an exception
\* of subprocess.run such as a missing executable or working directory) the
\* first two return false and the third returns the empty list.
C33_ExistenceChecksNeverRaise ==
    last.op \in { "local_branch_exists", "remote_branch_exists",
                  "get_remote_branches" } =>
        /\ last.res.ok
        /\ (last.fault # "none" \/ ~last.present) =>
              last.res.val[1] = IF last.op = "get_remote_branches" THEN {} ELSE FALSE

----------------------------------------------------------------------------
(* SpecFix: create_worktree with I/O failures in the path rewriting         *)

FixCreateWorktree ==
    \E rp \in MgrPairs, branch \in MgrBranches, fault \in { "none" } \cup FixFaults :
        SeqDone("create_worktree", rp[1], rp[2], branch, fault,
                WorktreeManager_create_worktree(
                    SeqWorld, rp[1], rp[2], branch,
                    Some(RemoteUrl(rp[1], rp[2])), fault, FALSE))

NextFix ==
    \/ FixCreateWorktree
    \/ OobDelete

SpecFix == InitMgr /\ [][NextFix]_vars

\* C34: a create_worktree call whose rewrite of the pointers meets an I/O
\* failure, before the .git pointer is written or between the two writes,
\* still returns the WorktreeInfo and has it stored; and as long as no I/O
\* failure has occurred, the .git pointer of every worktree that
\* create_worktree returns holds a relative path.
RewriteFailureSwallowed ==
    (last.op = "create_worktree" /\ last.fault \in FixFaults
       /\ InvokedOk("worktree add")) =>
        /\ last.res.ok
        /\ MetadataStorage_get_worktree(World(1), last.owner, last.repo, last.branch)
               = last.res.val
        /\ MetadataStorage_load(disk) = mem[1]
        /\ IsFile(fs, Append(LastWorktreePath, ".git"))

ReturnedPointerRelative ==
    (last.op = "create_worktree" /\ last.res.ok) =>
        /\ IsFile(fs, Append(last.res.val[1].local_path, ".git"))
        /\ ~fs[Append(last.res.val[1].local_path, ".git")].content.abs

C34_RewriteIsBestEffort ==
    /\ []RewriteFailureSwallowed
    /\ [](last.fault \notin FixFaults) => []ReturnedPointerRelative

\* The second write failed: the call returned, the .git pointer is
\* relative and the reverse pointer is still absolute.
C34_Witness ==
    /\ last.op = "create_worktree" /\ last.fault = "fix_gitdir" /\ last.res.ok
    /\ InvokedOk("worktree add")
    /\ ~fs[Append(LastWorktreePath, ".git")].content.abs
    /\ fs[Append(MetadataDir(fs, LastRepoPath, LastWorktreePath), "gitdir")].content.abs

\* The first write failed: the call returned and both pointers are absolute.
C34_WitnessBeforeFirstWrite ==
    /\ last.op = "create_worktree" /\ last.fault \in { "fix_read", "fix_git" }
    /\ last.res.ok
    /\ InvokedOk("worktree add")
    /\ fs[Append(LastWorktreePath, ".git")].content.abs

\* No failure: a worktree returned without a new git worktree add, with a
\* relative pointer.
C34_WitnessReturnedExisting ==
    /\ last.op = "create_worktree" /\ last.fault = "none" /\ last.res.ok
    /\ ~InvokedOk("worktree add")
    /\ ~fs[Append(LastWorktreePath, ".git")].content.abs

\* C35: when clone_repo or create_worktree (which calls ensure_repo) raises,
\* a repository directory or worktree directory that existed before the
\* call still exists afterwards with everything it held.
KeptWithContents(F, G, dir) ==
    \A q \in DOMAIN F :
        (Len(q) >= Len(dir) /\ SubSeq(q, 1, Len(dir)) = dir) =>
            (q \in DOMAIN G /\ G[q] = F[q])

C35_CleanupSparesWhatExisted ==
    [][ ( /\ nops' = nops + 1
          /\ last'.op \in { "clone_repo", "create_worktree" }
          /\ ~last'.res.ok ) =>
          LET repo_path == RepositoryManager_get_repo_path(last'.owner, last'.repo)
              worktree_path == WorktreeManager_get_worktree_path(
                                   last'.owner, last'.repo, last'.branch)
          IN  /\ Exists(fs, repo_path) => KeptWithContents(fs, fs', repo_path)
              /\ (last'.op = "create_worktree" /\ Exists(fs, worktree_path)) =>
                     KeptWithContents(fs, fs', worktree_path)
      ]_vars

----------------------------------------------------------------------------
(* SpecCollide: worktrees of one repository created, ensured and removed    *)
(* for branches whose names differ only in "/" and "-"                     *)

CollideCreate ==
    \E rp \in MgrPairs, branch \in AllBranches :
        SeqDone("create_worktree", rp[1], rp[2], branch, "none",
                WorktreeManager_create_worktree(
                    SeqWorld, rp[1], rp[2], branch,
                    Some(RemoteUrl(rp[1], rp[2])), "none", FALSE))

CollideEnsure ==
    \E rp \in MgrPairs, branch \in AllBranches :
        SeqDone("ensure_worktree", rp[1], rp[2], branch, "none",
                WorktreeManager_ensure_worktree(
                    SeqWorld, rp[1], rp[2], branch,
                    Some(RemoteUrl(rp[1], rp[2])), "none", FALSE))

CollideRemove ==
    \E rp \in MgrPairs, branch \in AllBranches :
        SeqDone("remove_worktree", rp[1], rp[2], branch, "none",
                WorktreeManager_remove_worktree(SeqWorld, rp[1], rp[2], branch,
                                                "none"))

NextCollide ==
    \/ CollideCreate
    \/ CollideEnsure
    \/ CollideRemove

SpecCollide == InitMgr /\ [][NextCollide]_vars

\* C36: two different branch names of one repository have different
\* worktree directories, and a create_worktree, ensure_worktree or
\* remove_worktree call for one branch returns that branch's WorktreeInfo
\* and leaves the directory and the stored metadata of every other branch
\* as they were.
C36_WorktreePathInjective ==
    [][ ( /\ nops' = nops + 1
          /\ last'.op \in { "create_worktree", "ensure_worktree", "remove_worktree" } ) =>
          \A other \in AllBranches \ { last'.branch } :
              LET own == WorktreeManager_get_worktree_path(
                             last'.owner, last'.repo, last'.branch)
                  dir == WorktreeManager_get_worktree_path(
                             last'.owner, last'.repo, other)
              IN  /\ own # dir
                  /\ Exists(fs, dir) => KeptWithContents(fs, fs', dir)
                  /\ StoredWorktree(mem'[1], last'.owner, last'.repo, other)
                       = StoredWorktree(mem[1], last'.owner, last'.repo, other)
                  /\ (last'.res.ok /\ last'.op # "remove_worktree") =>
                        last'.res.val[1].branch = last'.branch
      ]_vars

----------------------------------------------------------------------------
(* SpecIds: workspaces of two repositories created in default mode (no id   *)
(* passed, no shared container) and deleted by id                          *)

IdsCreateWorkspace ==
    \E rp \in SyncPairs, branch \in MgrBranches, up \in DevpodOutcomes :
        \E W1 \in { WorktreeManager_ensure_worktree(
                        SeqWorld, rp[1], rp[2], branch,
                        Some(RemoteUrl(rp[1], rp[2])), "none", FALSE) } :
            SeqDoneWith("create_workspace", rp[1], rp[2], branch, "none", None, FALSE,
                        WorkspaceManager_create_workspace_locked(
                            W1, rp[1], rp[2], branch, None, FALSE,
                            [fault |-> "none", listed |-> FALSE, up |-> up]))

NextIds ==
    \/ IdsCreateWorkspace
    \/ DeleteWorkspace

SpecIds == InitMgr /\ [][NextIds]_vars

\* C37: in default mode no two stored worktrees of different repositories
\* or branches carry the same devpod_workspace_id, and a delete_workspace
\* call with remove_worktree removes a worktree only if it is the one
\* stored worktree that carries the id.
C37_DefaultIdsAreDistinct ==
    [][ (nops' = nops + 1) =>
          /\ \A v, w \in Range(mem'[1].worktrees) :
                ( /\ v.devpod_workspace_id # None
                  /\ v.devpod_workspace_id = w.devpod_workspace_id ) =>
                    ( v.owner = w.owner /\ v.repo = w.repo /\ v.branch = w.branch )
          /\ ( /\ last'.op = "delete_workspace"
               /\ last'.args.remove_worktree
               /\ last'.args.worktree # None ) =>
                 \A w \in Range(mem[1].worktrees) :
                     w.devpod_workspace_id = last'.workspace_id =>
                         w = last'.args.worktree[1]
      ]_vars

----------------------------------------------------------------------------
(* SpecRace: create_workspace calls and delete_workspace calls of           *)
(* independent invocations on one repository                               *)

RaceIds == { "m", "a-b-c-m" }

\* A process starts, loads the metadata file and calls
\* delete_workspace(id, remove_worktree=True); the call takes no lock.
RaceDelete(p) ==
    /\ pc[p] = "idle"
    /\ \E workspace_id \in RaceIds :
        \E W0 \in { [World(p) EXCEPT !.mem = MetadataStorage_load(disk)] } :
          \E worktree_to_remove \in
                IF DeleteMatches(W0, workspace_id) # {}
                THEN { Some(w) : w \in DeleteMatches(W0, workspace_id) }
                ELSE { None } :
            \E W \in { WorkspaceManager_delete_workspace(
                           W0, workspace_id, TRUE, worktree_to_remove,
                           [delete |-> "ok", fault |-> "none"]) } :
                /\ Commit(p, W)
                /\ ret' = [ret EXCEPT ![p] = W.res]
                /\ call' = [call EXCEPT ![p] =
                               [NoCall EXCEPT
                                   !.owner = IF worktree_to_remove = None THEN ""
                                             ELSE worktree_to_remove[1].owner,
                                   !.repo = IF worktree_to_remove = None THEN ""
                                            ELSE worktree_to_remove[1].repo,
                                   !.branch = IF worktree_to_remove = None THEN <<>>
                                              ELSE worktree_to_remove[1].branch]]
    /\ pc' = [pc EXCEPT ![p] = "deleted"]
    /\ UNCHANGED locks
    /\ SeqUnchanged

NextRace ==
    \E p \in Procs :
        \/ StartWriter(p)
        \/ Acquire(p)
        \/ Ensure(p)
        \/ Up(p)
        \/ StoreBack(p)
        \/ Release(p)
        \/ RaceDelete(p)

SpecRace == InitWriters /\ [][NextRace]_vars

\* C38: a step of a Workspace Manager call that changes the directory tree
\* of a repository is taken while its process holds the lock of that
\* repository, and a create_workspace call that returns a WorktreeInfo
\* returns one whose directory exists.
C38_MutationsHoldTheRepoLock ==
    [][ \A p \in Procs :
          /\ (pc[p] # pc'[p] /\ fs' # fs) =>
                p \in Holders(LockFileName(call'[p].owner, call'[p].repo))
          /\ (pc[p] = "unlock" /\ pc'[p] = "done" /\ ret[p].ok) =>
                Exists(fs, ret[p].val[1].local_path)
      ]_vars

\* C39: a sync_workspaces call whose `devpod list` failed (non-zero exit, no
\* output or unparsable output) leaves the store and the metadata file as
\* they were.
C39_FailedListingClearsNothing ==
    [][ ( /\ nops' = nops + 1
          /\ last'.op = "sync_workspaces"
          /\ \E l \in EntriesOfStep("list") : ~log'[l].ok ) =>
          /\ mem' = mem
          /\ disk' = disk
      ]_vars

----------------------------------------------------------------------------
(* SpecFair: the processes of Spec under fair scheduling: a waiting flock   *)
(* is granted when the lock keeps becoming free, and a process that is not *)
(* waiting for the lock takes its next step (every subprocess ends)        *)

\* Where a call stands after the step it takes at `at`
PcAfter(at) == IF at = "ensure" THEN { "up", "unlock" } ELSE { "unlock" }

\* The step of process p at `at`, seen on pc alone.  ensure_worktree and
\* add_worktree return or raise in every state, so Ensure(p) and
\* StoreBack(p) are enabled exactly where pc[p] stands at them, and they are
\* the only steps that move pc[p] from there (MovesAreSteps).
Moves(p, at) ==
    /\ pc[p] = at
    /\ \E to \in PcAfter(at) : pc' = [pc EXCEPT ![p] = to]

MovesAreSteps ==
    [][ \A p \in Procs :
          /\ <<Moves(p, "ensure")>>_pc <=> <<Ensure(p)>>_vars
          /\ <<Moves(p, "store")>>_pc <=> <<StoreBack(p)>>_vars
      ]_vars

Fairness ==
    \A p \in Procs :
        /\ SF_vars(Acquire(p))
        /\ WF_pc(Moves(p, "ensure"))
        /\ WF_vars(Up(p))
        /\ WF_pc(Moves(p, "store"))
        /\ WF_vars(Release(p))

SpecFair == Init /\ [][Next]_vars /\ Fairness

HeldBy(p) == { name \in DOMAIN locks : p \in locks[name] }

\* C40: a create_workspace call holds at most one lock, and none while it
\* waits for one; and every call that has started returns or raises.
C40_CreateWorkspaceTerminates ==
    /\ [](\A p \in Procs :
             /\ Cardinality(HeldBy(p)) <= 1
             /\ pc[p] \in { "idle", "lock", "done" } => HeldBy(p) = {})
    /\ \A p \in Procs : (pc[p] = "lock") ~> (pc[p] = "done")

\* One call waits for the lock another call holds.
C40_Witness ==
    \E p, q \in Procs :
        /\ p # q
        /\ pc[p] = "lock"
        /\ q \in Holders(LockFileName(call[p].owner, call[p].repo))

\* Every process has made its call and every call is over, one of them
\* raised.
C40_WitnessAllDone ==
    /\ \A p \in Procs : pc[p] = "done"
    /\ \E p \in Procs : ~ret[p].ok
    /\ \A name \in DOMAIN locks : locks[name] = {}

====
